---- MODULE Spec2Model ----
(***************************************************************************)
(* State-machine model of the website-clone agent: the WebsiteCloneAgent   *)
(* class (agent.js: constructor, loadSystemPrompt, reset, getHistory, run) *)
(* and the interactive shell that drives it (the rl.on('line') handler).   *)
(*                                                                         *)
(* A run call is an async function.  It is modelled as one process per     *)
(* call whose position (pc) is the await it is suspended at; every action  *)
(* is the code that runs between two awaits.                               *)
(***************************************************************************)
EXTENDS Integers, Sequences, FiniteSets, TLC

(***************************************************************************)
(* Bounds of the exploration.                                              *)
(***************************************************************************)
MaxCalls == 2       \* run calls issued in one session
MaxStepsOpt == 2    \* largest maxSteps option given to the constructor
MaxSessionSteps == 4 \* loop iterations all run calls of one session may take together
MaxShellSteps == 2  \* the same, in the session whose lines arrive at any time
MaxProse == 2       \* chunks of prose before, and after, the body of a text

DefaultMaxSteps == 20
ShellMaxSteps == 20

\* Run calls in flight at a time when every line is entered at the prompt: the
\* shell prompts again only once the run has ended.  ShellLine lifts this.
MaxInFlight == 1

CallIds == 1..MaxCalls

(***************************************************************************)
(* JSON values.  A parsed value is a record of the fields the loop reads;  *)
(* a field that is missing holds "absent".  final is "true" for the        *)
(* boolean true, "false" for the boolean false and "1" for a truthy value  *)
(* that is not the boolean true.                                           *)
(***************************************************************************)
JsonValue(type, final, tool, params, id) ==
  [type |-> type, final |-> final, tool |-> tool, params |-> params, id |-> id]

JsonNull == JsonValue("null", "absent", "absent", "absent", "absent")

\* JSON.parse of the texts a model reply is built from; "invalid" when
\* JSON.parse throws.
JSONparse(s) ==
  CASE s = "{\"final\":true,\"summary\":\"done\",\"artifacts\":[\"index.html\"]}"
         -> JsonValue("object", "true", "absent", "absent", "absent")
    [] s = "{\"final\":true,\"tool\":\"page.extract\"}"
         -> JsonValue("object", "true", "page.extract", "absent", "absent")
    [] s = "{\"final\":1}"
         -> JsonValue("object", "1", "absent", "absent", "absent")
    [] s = "{\"tool\":\"page.extract\",\"params\":{\"url\":\"https://example.com\"},\"id\":\"s1\"}"
         -> JsonValue("object", "absent", "page.extract", "{url}", "s1")
    [] s = "{\"tool\":\"page.extract\"}"
         -> JsonValue("object", "absent", "page.extract", "absent", "absent")
    [] s = "{\"tool\":\"system.run\",\"params\":{\"command\":\"no-such-binary\",\"options\":{\"background\":true,\"shell\":false}},\"id\":\"s2\"}"
         -> JsonValue("object", "absent", "system.run", "{command,background}", "s2")
    [] s = "{\"tool\":\"shots.capture\",\"params\":{\"url\":\"https://example.com\"},\"id\":\"s3\"}"
         -> JsonValue("object", "absent", "shots.capture", "{url}", "s3")
    [] s = "{\"tool\":\"bogus.tool\"}"
         -> JsonValue("object", "absent", "bogus.tool", "absent", "absent")
    [] s = "{\"tool\":\"constructor\",\"params\":{}}"
         -> JsonValue("object", "absent", "constructor", "{}", "absent")
    [] s = "{\"tool\":\"__proto__\"}"
         -> JsonValue("object", "absent", "__proto__", "absent", "absent")
    [] s = "{\"final\":false,\"tool\":\"page.extract\"}"
         -> JsonValue("object", "false", "page.extract", "absent", "absent")
    [] s = "{\"tool\":\"\"}"
         -> JsonValue("object", "absent", "", "absent", "absent")
    [] s = "5"
         -> JsonValue("number", "absent", "absent", "absent", "absent")
    [] s = "[\"index.html\"]"
         -> JsonValue("array", "absent", "absent", "absent", "absent")
    [] s = "\"done\""
         -> JsonValue("string", "absent", "absent", "absent", "absent")
    [] s = "true"
         -> JsonValue("boolean", "absent", "absent", "absent", "absent")
    [] OTHER -> JsonValue("invalid", "absent", "absent", "absent", "absent")

(***************************************************************************)
(* A text is a sequence of chunks.  A chunk is a fence line (``` with an   *)
(* optional language tag, on a line of its own), a JSON text, or a piece   *)
(* of prose.  Text(pre, fenced, body, post) is the prose chunks pre, then  *)
(* the body, in a fenced block when fenced, then the prose chunks post.    *)
(* The chunk "<fence json>" is the line ```json and "<fence>" the line     *)
(* ```; fence lines are separated from their neighbours by line breaks.    *)
(***************************************************************************)
Text(pre, fenced, body, post) ==
  pre \o (IF fenced THEN <<"<fence json>">> ELSE <<>>)
      \o (IF body = "" THEN <<>> ELSE <<body>>)
      \o (IF fenced THEN <<"<fence>">> ELSE <<>>)
      \o post

NoText == <<>>

IsFence(chunk) == chunk \in {"<fence>", "<fence json>"}

\* chunk.indexOf("{") !== -1 and chunk.lastIndexOf("}") !== -1
HasOpenBrace(chunk) ==
  JSONparse(chunk).type = "object" \/ chunk = "Use {name"
HasCloseBrace(chunk) ==
  JSONparse(chunk).type = "object" \/ chunk = "as in name}"

Least(S) == CHOOSE x \in S : \A y \in S : x <= y
Greatest(S) == CHOOSE x \in S : \A y \in S : y <= x

\* candidate.match(/```[a-zA-Z]*\n([\s\S]*?)\n```/): the first fence line that
\* has a later fence line with a line between them opens the block, the first
\* such later fence line closes it; the candidate becomes the lines between.
FenceOpeners(text) ==
  { i \in 1..Len(text) :
      IsFence(text[i]) /\ \E j \in (i + 2)..Len(text) : IsFence(text[j]) }

FenceInner(text) ==
  IF FenceOpeners(text) = {} THEN text
  ELSE LET i == Least(FenceOpeners(text))
           j == Least({ k \in (i + 2)..Len(text) : IsFence(text[k]) })
       IN  SubSeq(text, i + 1, j - 1)

\* JSON.parse of a candidate: more than one chunk is never one JSON value
JSONparseText(candidate) ==
  IF Len(candidate) = 1 THEN JSONparse(candidate[1])
  ELSE JsonValue("invalid", "absent", "absent", "absent", "absent")

\* Variant: no part of the candidate is cut out.
BraceSliceNone(candidate) == <<>>

\* candidate.slice(start, end + 1) for the first "{" and the last "}", or the
\* empty text when the test start !== -1 && end !== -1 && end > start fails
BraceSlice(candidate) ==
  LET opens == { i \in 1..Len(candidate) : HasOpenBrace(candidate[i]) }
      closes == { i \in 1..Len(candidate) : HasCloseBrace(candidate[i]) }
  IN  IF opens = {} \/ closes = {} THEN <<>>
      ELSE IF Least(opens) > Greatest(closes) THEN <<>>
      ELSE SubSeq(candidate, Least(opens), Greatest(closes))

\* Variant: a fenced block is not looked for.
extractJsonObjectNoFence(text) ==
  LET direct == JSONparseText(text)
      sub == JSONparseText(BraceSlice(text))
  IN  IF Len(text) = 0 THEN JsonNull
      ELSE IF direct.type # "invalid" THEN direct
      ELSE IF sub.type # "invalid" THEN sub
      ELSE JsonNull

\* extractJsonObject(text): null for an empty text; the first fenced block's
\* inner text if there is one, else the whole text, is parsed; failing that,
\* the part from its first "{" to its last "}" is parsed.
extractJsonObject(text) ==
  LET candidate == FenceInner(text)
      direct == JSONparseText(candidate)
      sub == JSONparseText(BraceSlice(candidate))
  IN  IF Len(text) = 0 THEN JsonNull
      ELSE IF direct.type # "invalid" THEN direct
      ELSE IF sub.type # "invalid" THEN sub
      ELSE JsonNull

(***************************************************************************)
(* The tool registry and what the property lookup toolRegistry[tool]       *)
(* finds: an own entry, a member inherited from Object.prototype, or       *)
(* nothing.                                                                *)
(***************************************************************************)
buildToolRegistry ==
  { "page.extract", "shots.capture", "files.read", "files.readMany",
    "files.write", "files.search", "files.replace", "files.exists",
    "fs.list", "fs.glob", "fs.globWithStats", "system.run" }

ObjectPrototypeFunctions ==
  { "constructor", "toString", "toLocaleString", "valueOf", "hasOwnProperty",
    "isPrototypeOf", "propertyIsEnumerable" }

NoFn == "undefined"

\* this.toolRegistry[tool]: the value the lookup yields, named by what it is.
ToolLookup(tool) ==
  IF tool \in buildToolRegistry THEN tool
  ELSE IF tool \in ObjectPrototypeFunctions THEN "Object.prototype." \o tool
  ELSE IF tool = "__proto__" THEN "Object.prototype"
  ELSE NoFn

IsCallable(fn) == fn # NoFn /\ fn # "Object.prototype"

\* Variant: params is passed on as it is, undefined when absent.
ParamsAsGiven(params) == params

\* params || {}
ParamsOrEmpty(params) ==
  IF params \in {"absent", "null", "0", "false"} THEN "{}" ELSE params

(***************************************************************************)
(* What a call of a tool function can end in.  A thrown value is an Error, *)
(* whose description is its message property, or a plain object that holds *)
(* the description in its error property and has no message property.      *)
(***************************************************************************)
Return(value) ==
  [kind |-> "return", value |-> value, hasMessage |-> FALSE, description |-> "",
   isArray |-> FALSE, shots |-> <<>>]
ThrowError(message) ==
  [kind |-> "throw", value |-> "", hasMessage |-> TRUE, description |-> message,
   isArray |-> FALSE, shots |-> <<>>]
ThrowObject(error) ==
  [kind |-> "throw", value |-> "", hasMessage |-> FALSE, description |-> error,
   isArray |-> FALSE, shots |-> <<>>]

(***************************************************************************)
(* What takeResponsiveScreenshots returns: an array with one entry per     *)
(* viewport, in the order mobile, tablet, desktop.  An entry holds the     *)
(* file the screenshot was saved to, or no file and the error of the       *)
(* capture.  readable tells whether the file is there and can be read when *)
(* run comes to inline it.                                                 *)
(***************************************************************************)
Shot(viewport, file, error, readable) ==
  [viewport |-> viewport, file |-> file, error |-> error, readable |-> readable]

Captured(viewport) ==
  Shot(viewport, "screenshot-example.com-" \o viewport \o "-1.png", "undefined", TRUE)
Removed(viewport) ==
  Shot(viewport, "screenshot-example.com-" \o viewport \o "-1.png", "undefined", FALSE)
NotCaptured(viewport) ==
  Shot(viewport, "null", "Protocol error (Page.captureScreenshot)", FALSE)

ReturnShots(shots) ==
  [kind |-> "return", value |-> "screenshots", hasMessage |-> FALSE,
   description |-> "", isArray |-> TRUE, shots |-> shots]

ShotResults ==
  { <<Captured("mobile"), Captured("tablet"), Captured("desktop")>>,
    <<Captured("mobile"), NotCaptured("tablet"), Captured("desktop")>>,
    <<Removed("mobile"), Captured("tablet"), Captured("desktop")>>,
    <<NotCaptured("mobile"), NotCaptured("tablet"), NotCaptured("desktop")>> }

\* The keys of the parameter mappings explored.
KeysOf(args) ==
  CASE args = "{url}" -> {"url"}
    [] args = "{command,background}" -> {"command", "options"}
    [] OTHER -> {}

\* The key each registry entry hands to its routine as the first argument.
RequiredKey(tool) ==
  CASE tool \in {"page.extract", "shots.capture"} -> "url"
    [] tool \in {"files.read", "files.write", "files.replace", "files.exists"} -> "filePath"
    [] tool \in {"files.readMany", "files.search"} -> "filePaths"
    [] tool = "fs.list" -> "dirPath"
    [] tool \in {"fs.glob", "fs.globWithStats"} -> "pattern"
    [] tool = "system.run" -> "command"
    [] OTHER -> "absent"

\* Whether the entry gets as far as calling its routine: page.extract and
\* shots.capture throw before it when url is missing, the others always call it.
RoutineCalled(fn, args) ==
  fn \in buildToolRegistry
    /\ ~(fn \in {"page.extract", "shots.capture"} /\ "url" \notin KeysOf(args))

PathsArgumentError ==
  "The \"paths[0]\" argument must be of type string. Received undefined"

\* What the routine of a registry entry does when its first argument is
\* undefined.
MissingKeyOutcomes(fn) ==
  CASE fn = "page.extract" -> { ThrowError("page.extract requires 'url'") }
    [] fn = "shots.capture" -> { ThrowError("shots.capture requires 'url'") }
    [] fn = "files.read" -> { ThrowError("Failed to read file: " \o PathsArgumentError) }
    [] fn = "files.readMany" ->
         { ThrowError("Cannot read properties of undefined (reading 'length')") }
    [] fn = "files.write" -> { ThrowError("Failed to write file: " \o PathsArgumentError) }
    [] fn = "files.search" ->
         { ThrowError("Failed to search file content: Cannot read properties of undefined (reading 'replace')") }
    [] fn = "files.replace" ->
         { ThrowError("Failed to replace content: " \o PathsArgumentError) }
    [] fn = "files.exists" -> { Return("false") }
    [] fn = "fs.list" ->
         { ThrowError("Failed to list directory 'undefined': " \o PathsArgumentError) }
    [] fn \in {"fs.glob", "fs.globWithStats"} ->
         { ThrowError("Failed to glob files: Pattern must be a non-empty string") }
    [] fn = "system.run" ->
         { Return("{success: false, error: The \"command\" argument must be of type string. Received undefined, attempts: 3}") }

ToolOutcomes(fn, args) ==
  CASE fn \in buildToolRegistry /\ RequiredKey(fn) \notin KeysOf(args) ->
         MissingKeyOutcomes(fn)
    [] fn = "page.extract" /\ "url" \in KeysOf(args) ->
         { Return("pageData"), ThrowError("Navigation failed after 3 attempts") }
    [] fn = "shots.capture" /\ "url" \in KeysOf(args) ->
         { ReturnShots(shots) : shots \in ShotResults }
           \cup { ThrowError("Navigation failed after 3 attempts") }
    [] fn = "system.run" /\ "command" \in KeysOf(args) ->
         IF args = "{command,background}"
         THEN { Return("Process started in background"),
                ThrowObject("spawn no-such-binary ENOENT") }
         ELSE { Return("runResult"),
                ThrowError("Command appears to be potentially dangerous and was blocked for safety") }
    [] fn = "Object.prototype.constructor" -> { Return(args) }
    [] fn = "Object.prototype.hasOwnProperty" ->
         { ThrowError("Cannot convert undefined or null to object") }
    [] OTHER -> { Return("result"), ThrowError("failed") }

\* err.message
ErrMessage(thrown) == IF thrown.hasMessage THEN thrown.description ELSE "undefined"

(***************************************************************************)
(* Messages.  field is the constructor field the text was passed in.       *)
(***************************************************************************)
Message(role, kind, field, text, reply, tool, id, result) ==
  [role |-> role, kind |-> kind, field |-> field, text |-> text, reply |-> reply,
   tool |-> tool, id |-> id, result |-> result, parts |-> <<>>]

SystemMessage(prompt) ==
  Message("system", "system", "content", prompt, NoText, "absent", "absent", "")
HumanMessage(input) ==
  Message("user", "input", "content", input, NoText, "absent", "absent", "")
AIMessage(content) ==
  Message("assistant", "reply", "content", "", content, "absent", "absent", "")
ToolNotFoundMessage(tool) ==
  Message("user", "notfound", "text", "Tool not found", NoText, tool, "absent", "")
ToolFailedMessage(tool, message) ==
  Message("user", "failed", "text", message, NoText, tool, "absent", "")
ToolResultMessage(id, tool, result) ==
  Message("user", "result", "text", "ok", NoText, tool, id, result)

\* mimeFromExtension(filePath): the screenshots are saved as .png files
mimeFromExtension(filePath) ==
  IF filePath \in { "screenshot-example.com-" \o v \o "-1.png" :
                      v \in {"mobile", "tablet", "desktop"} }
  THEN "image/png"
  ELSE "application/octet-stream"

\* fileToDataUrl(filePath); "base64(f)" is the base64 text of the bytes of f
fileToDataUrl(filePath) ==
  "data:" \o mimeFromExtension(filePath) \o ";base64,base64(" \o filePath \o ")"

NoSummary == [id |-> "absent", tool |-> "absent", ok |-> FALSE, resultSummary |-> <<>>]

\* { type: "text", text: JSON.stringify({ id, tool, ok: true, resultSummary:
\* result.map(r => ({ viewport, file, error: r.error || null })) }, null, 2) }
TextPart(id, tool, result) ==
  [type |-> "text", url |-> "",
   text |-> [id |-> id, tool |-> tool, ok |-> TRUE,
             resultSummary |->
               [i \in 1..Len(result) |->
                  [viewport |-> result[i].viewport, file |-> result[i].file,
                   error |-> IF result[i].error \in {"undefined", ""}
                             THEN "null" ELSE result[i].error]]]]

\* { type: "image_url", image_url: { url: dataUrl } }
ImagePart(file) == [type |-> "image_url", url |-> fileToDataUrl(file), text |-> NoSummary]

\* The images collected by the loop over the result: an entry is skipped when
\* it has no file, when the file does not exist and when reading it fails.
Images(result) ==
  LET kept == SelectSeq(result, LAMBDA shot : shot.file # "null" /\ shot.readable)
  IN  [i \in 1..Len(kept) |-> ImagePart(kept[i].file)]

\* new HumanMessage([textPart, ...images])
ShotsMessage(id, tool, result) ==
  [Message("user", "shots", "array", "ok", NoText, tool, id, "screenshots")
     EXCEPT !.parts = <<TextPart(id, tool, result)>> \o Images(result)]

\* The content a message object has once it is constructed: HumanMessage,
\* SystemMessage and AIMessage take it from a string argument or from the
\* content field of a fields object; a text field is not read, so a message
\* made from {text: ...} has the content undefined.
Content(defined, text, reply, tool, id, result) ==
  [defined |-> defined, text |-> text, reply |-> reply, tool |-> tool, id |-> id,
   result |-> result]

Undefined == Content(FALSE, "", NoText, "absent", "absent", "")

MessageContent(m) ==
  IF m.field = "content"
  THEN Content(TRUE, m.text, m.reply, m.tool, m.id, m.result)
  ELSE Undefined

\* JSON.stringify({id, tool, ok: true, result}, null, 2)
JSONstringifyResult(id, tool, result) ==
  Content(TRUE, "ok", NoText, tool, id, result)

(***************************************************************************)
(* Inputs.                                                                 *)
(***************************************************************************)
PromptFile == "You are a website cloning agent"

Lines == { "clone example.com", "  clone example.com ", "exit", " EXIT " }

\* input.trim()
Trim(input) ==
  CASE input = "  clone example.com " -> "clone example.com"
    [] input = " EXIT " -> "EXIT"
    [] OTHER -> input

\* userInput.toLowerCase()
ToLowerCase(s) == IF s = "EXIT" THEN "exit" ELSE s

Replies ==
  { Text(<<"I will start by looking at the page.">>, FALSE, "", <<>>),
    Text(<<>>, FALSE, "{\"final\":true,\"summary\":\"done\",\"artifacts\":[\"index.html\"]}", <<>>),
    Text(<<>>, FALSE, "{\"tool\":\"page.extract\",\"params\":{\"url\":\"https://example.com\"},\"id\":\"s1\"}", <<>>),
    Text(<<"Next step:">>, TRUE, "{\"tool\":\"page.extract\"}", <<>>),
    Text(<<>>, FALSE, "{\"tool\":\"system.run\",\"params\":{\"command\":\"no-such-binary\",\"options\":{\"background\":true,\"shell\":false}},\"id\":\"s2\"}", <<>>),
    Text(<<>>, FALSE, "{\"tool\":\"bogus.tool\"}", <<>>),
    Text(<<>>, FALSE, "{\"tool\":\"constructor\",\"params\":{}}", <<>>) }

VARIABLES
  messages,       \* this.messages
  maxSteps,       \* this.maxSteps
  systemPrompt,   \* this._systemPrompt ("null" until loaded)
  calls,          \* the run calls of the session, by call id
  alive,          \* the shell process has not exited
  sysInserts,     \* system messages put into the history so far
  options,        \* the options the constructor was called with
  probe,          \* the last direct call of a function: its input and its result
  files,          \* the files the program reads and writes
  routine         \* the tool routine called on its own: its position and locals

vars ==
  <<messages, maxSteps, systemPrompt, calls, alive, sysInserts, options, probe,
    files, routine>>

NoCall ==
  [pc |-> "none", input |-> "", step |-> 0, modelCalls |-> 0, toolCalls |-> 0,
   fn |-> NoFn, args |-> "", tool |-> "absent", id |-> "absent",
   final |-> FALSE, result |-> JsonNull, error |-> "", shell |-> "none",
   replies |-> <<>>, appended |-> 0, foundEmpty |-> FALSE,
   reading |-> FALSE, loaded |-> FALSE]

\* The options objects given to the constructor: {} and {maxSteps: n}.
ConstructorOptions ==
  { [hasMaxSteps |-> FALSE, maxSteps |-> 0] }
    \cup { [hasMaxSteps |-> TRUE, maxSteps |-> n] : n \in 0..MaxStepsOpt }

\* new WebsiteCloneAgent(options): this.maxSteps = options.maxSteps || 20
Constructor(opts) ==
  IF ~opts.hasMaxSteps \/ opts.maxSteps = 0 THEN DefaultMaxSteps ELSE opts.maxSteps

NoProbe ==
  [op |-> "none", pre |-> <<>>, fenced |-> FALSE, body |-> "", post |-> <<>>,
   text |-> <<>>, json |-> JsonNull, tool |-> "absent", args |-> "",
   directive |-> "None", outcome |-> Return(""), routineCalled |-> FALSE]

\* The files: the system prompt resource at systemPromptPath; the file that
\* replace is called on (whether it exists, its content as a sequence of words,
\* the backup copies made of it, the number of times it was written); the
\* extraction cache index data/website_extraction/websites.json (a mapping of
\* website keys to the extraction file they name) and the state of the
\* extraction files; the screenshots cache index data/screenshots/websites.json
\* (a mapping of website keys to a mapping of viewport names to files) and the
\* screenshot files on disk; for every file of the two caches the url it was
\* made for; and the clock that Date.now() reads.
NoWebsites == [key \in {} |-> ""]

Files(prompt) ==
  [prompt |-> prompt, exists |-> FALSE, content |-> <<>>, backups |-> <<>>,
   writes |-> 0,
   extractionIndex |-> NoWebsites, extractionFiles |-> [file \in {} |-> ""],
   screenshotsIndex |-> NoWebsites, screenshotFiles |-> {},
   storedFor |-> [file \in {} |-> ""], now |-> 2]

NoRoutine == [op |-> "none"]

Init ==
  /\ messages = <<>>
  /\ options \in ConstructorOptions
  /\ maxSteps = Constructor(options)
  /\ probe = NoProbe
  /\ files = Files(PromptFile)
  /\ routine = NoRoutine
  /\ systemPrompt = "null"
  /\ calls = [c \in CallIds |-> NoCall]
  /\ alive = TRUE
  /\ sysInserts = 0


(***************************************************************************)
(* The for loop of run: for (let step = 0; step < this.maxSteps; step++).  *)
(***************************************************************************)
\* Variant: the loop test lets one more iteration through.
LoopConditionOffByOne(step) == step <= maxSteps

LoopCondition(step) == step < maxSteps

\* What the shell's async block does once run has settled.
ShellOnResult(final) ==
  IF final THEN "prompt" ELSE "No final result yet (max steps reached), prompt"

ShellOnError(message) == "AI Error: " \o message \o ", prompt"

\* Variant: the loop end throws instead of returning.
ReturnExhaustedThrows(rec) ==
  [rec EXCEPT !.pc = "rejected", !.error = "max steps reached",
              !.fn = NoFn, !.args = "", !.tool = "absent", !.id = "absent",
              !.shell = ShellOnError("max steps reached")]

\* Variant: at the loop end the call neither returns nor throws.
ReturnExhaustedNever(rec) ==
  [rec EXCEPT !.pc = "spinning", !.fn = NoFn, !.args = "", !.tool = "absent",
              !.id = "absent"]

\* return { final: false, result: null, messages } after the loop
ReturnExhausted(rec) ==
  [rec EXCEPT !.pc = "exhausted", !.final = FALSE, !.result = JsonNull,
              !.fn = NoFn, !.args = "", !.tool = "absent", !.id = "absent",
              !.shell = ShellOnResult(FALSE)]

\* The argument of this.model.invoke(this.messages): the conversation as the
\* step that makes the invocation leaves it.
ModelInput == messages'

\* this.model.invoke(this.messages) at the top of an iteration
InvokeModel(rec) ==
  [rec EXCEPT !.pc = "awaitModel", !.modelCalls = @ + 1, !.fn = NoFn, !.args = "",
              !.tool = "absent", !.id = "absent"]

\* continue (or the end of the loop body): step++ and the loop test
NextStep(rec) ==
  LET r == [rec EXCEPT !.step = @ + 1]
  IN  IF LoopCondition(r.step) THEN InvokeModel(r) ELSE ReturnExhausted(r)

\* Variant: final is compared with the string "true".
IsFinalString(json) == json.type # "null" /\ json.final = "\"true\""

\* json && json.final === true
IsFinal(json) == json.type # "null" /\ json.final = "true"

\* Variant: whatever was extracted is taken for a tool call.
IsToolCallAny(json) == TRUE

\* Variant: a value with a final field is never taken for a tool call.
IsToolCallNoFinal(json) ==
  json.type # "null" /\ json.tool \notin {"absent", ""} /\ json.final = "absent"

\* json && json.tool
IsToolCall(json) == json.type # "null" /\ json.tool \notin {"absent", ""}

\* What run takes the extracted value for: if (json && json.final === true) ...
\* if (json && json.tool) ... else nothing
Directive(json) ==
  IF IsFinal(json) THEN "Final" ELSE IF IsToolCall(json) THEN "ToolCall" ELSE "None"

(***************************************************************************)
(* The shell: rl.on('line', ...).  A line that is not the exit command     *)
(* starts a run call without waiting for earlier ones.                     *)
(***************************************************************************)
\* loadSystemPrompt, up to its await: if (this._systemPrompt) return it, else
\* fs.readFile is started.  It runs as soon as run is called.
ReadsPromptFile == systemPrompt \in {"null", ""}

InFlight == { c \in CallIds : calls[c].pc \in {"loading", "awaitModel", "awaitTool"} }

\* Variant: the step counter goes on from where the previous run call left it.
InitialStepCarried(c) == IF c - 1 \in CallIds THEN calls[c - 1].step ELSE 0

\* for (let step = 0; ...): the counter is a local of the call
InitialStep(c) == 0

Line(input) ==
  /\ alive
  /\ LET userInput == Trim(input)
     IN  IF ToLowerCase(userInput) = "exit"
         THEN /\ alive' = FALSE
              /\ UNCHANGED <<messages, maxSteps, options, files, routine, probe, systemPrompt, calls, sysInserts>>
         ELSE /\ \E c \in CallIds :
                   /\ calls[c].pc = "none"
                   /\ \A d \in CallIds : d < c => calls[d].pc # "none"
                   /\ c * maxSteps <= MaxSessionSteps
                   /\ Cardinality(InFlight) < MaxInFlight
                   /\ calls' = [calls EXCEPT ![c] =
                        [NoCall EXCEPT !.pc = "loading", !.input = userInput,
                                       !.step = InitialStep(c),
                                       !.reading = ReadsPromptFile,
                                       !.shell = "AI: Working..."]]
              /\ UNCHANGED <<messages, maxSteps, options, files, routine, probe, systemPrompt, alive, sysInserts>>

\* The messages a step of a run call has pushed are counted for the call.
Pushed(rec) == [rec EXCEPT !.appended = @ + Len(messages') - Len(messages)]

(***************************************************************************)
(* run, up to its first model invocation: the system prompt is loaded, the *)
(* system message is inserted into an empty history, the user input is     *)
(* appended and the loop is entered.                                       *)
(***************************************************************************)
SystemCount(msgs) == Cardinality({ i \in 1..Len(msgs) : msgs[i].role = "system" })

\* Variants: the history is always started anew; the system message is never
\* inserted; the system message is put in front on every run.
StartHistoryAlways(msgs, prompt, userInput) ==
  <<SystemMessage(prompt), HumanMessage(userInput)>>

StartHistoryKeepEmpty(msgs, prompt, userInput) ==
  Append(msgs, HumanMessage(userInput))

StartHistoryPrepend(msgs, prompt, userInput) ==
  <<SystemMessage(prompt)>> \o Append(msgs, HumanMessage(userInput))

StartHistory(msgs, prompt, userInput) ==
  IF Len(msgs) = 0
  THEN <<SystemMessage(prompt), HumanMessage(userInput)>>
  ELSE Append(msgs, HumanMessage(userInput))

PromptLoaded(c) ==
  /\ alive
  /\ calls[c].pc = "loading"
  /\ LET prompt == IF calls[c].reading THEN files.prompt ELSE systemPrompt
         rec == [calls[c] EXCEPT !.foundEmpty = (Len(messages) = 0),
                                 !.loaded = calls[c].reading]
     IN  /\ systemPrompt' = prompt
         /\ messages' = StartHistory(messages, prompt, rec.input)
         /\ sysInserts' = sysInserts + SystemCount(messages') - SystemCount(messages)
         /\ calls' = [calls EXCEPT ![c] =
              Pushed(IF LoopCondition(rec.step) THEN InvokeModel(rec)
                     ELSE ReturnExhausted(rec))]
  /\ UNCHANGED <<maxSteps, options, files, routine, probe, alive>>

\* fs.readFile of the prompt file fails: run rejects before it touches the history
PromptReadFails(c) ==
  /\ alive
  /\ calls[c].pc = "loading"
  /\ calls[c].reading
  /\ calls' = [calls EXCEPT ![c] =
       [@ EXCEPT !.pc = "rejected", !.error = "ENOENT",
                 !.shell = ShellOnError("ENOENT")]]
  /\ UNCHANGED <<messages, maxSteps, options, files, routine, probe, systemPrompt, alive, sysInserts>>

(***************************************************************************)
(* One model reply: the assistant message is appended, the directive is    *)
(* extracted and acted on, up to the next await.                           *)
(***************************************************************************)
ModelReply(c, content) ==
  /\ alive
  /\ calls[c].pc = "awaitModel"
  /\ LET rec == [calls[c] EXCEPT !.replies = Append(@, content)]
         msgs == Append(messages, AIMessage(content))
         json == extractJsonObject(content)
         toolFn == ToolLookup(json.tool)
     IN  IF IsFinal(json)
         THEN /\ messages' = msgs
              /\ calls' = [calls EXCEPT ![c] =
                   Pushed([rec EXCEPT !.pc = "final", !.final = TRUE, !.result = json,
                                      !.shell = ShellOnResult(TRUE)])]
         ELSE IF IsToolCall(json)
         THEN IF toolFn = NoFn
              THEN /\ messages' = Append(msgs, ToolNotFoundMessage(json.tool))
                   /\ calls' = [calls EXCEPT ![c] = Pushed(NextStep(rec))]
              ELSE IF IsCallable(toolFn)
              THEN /\ messages' = msgs
                   /\ calls' = [calls EXCEPT ![c] =
                        Pushed([rec EXCEPT !.pc = "awaitTool", !.fn = toolFn,
                                           !.args = ParamsOrEmpty(json.params),
                                           !.tool = json.tool, !.id = json.id,
                                           !.toolCalls = @ + 1])]
              ELSE /\ messages' = Append(msgs,
                        ToolFailedMessage(json.tool, "toolFn is not a function"))
                   /\ calls' = [calls EXCEPT ![c] = Pushed(NextStep(rec))]
         ELSE /\ messages' = msgs
              /\ calls' = [calls EXCEPT ![c] = Pushed(NextStep(rec))]
  /\ UNCHANGED <<maxSteps, options, files, routine, probe, systemPrompt, alive, sysInserts>>

\* Variant: the failure of model.invoke is caught and the loop goes on.
ModelFailsSwallowed(c) ==
  /\ alive
  /\ calls[c].pc = "awaitModel"
  /\ calls' = [calls EXCEPT ![c] = NextStep(@)]
  /\ UNCHANGED <<messages, maxSteps, options, files, routine, probe, systemPrompt, alive, sysInserts>>

\* Variant: the failure of model.invoke removes from the history what the call
\* had appended.
ModelFailsRollsBack(c) ==
  /\ alive
  /\ calls[c].pc = "awaitModel"
  /\ messages' = SubSeq(messages, 1, Len(messages) - calls[c].appended)
  /\ calls' = [calls EXCEPT ![c] =
       [@ EXCEPT !.pc = "rejected", !.error = "model invocation failed",
                 !.shell = ShellOnError("model invocation failed")]]
  /\ UNCHANGED <<maxSteps, options, files, routine, probe, systemPrompt, alive, sysInserts>>

\* this.model.invoke rejects: run rejects, the shell prints the error and prompts
ModelFails(c) ==
  /\ alive
  /\ calls[c].pc = "awaitModel"
  /\ calls' = [calls EXCEPT ![c] =
       [@ EXCEPT !.pc = "rejected", !.error = "model invocation failed",
                 !.shell = ShellOnError("model invocation failed")]]
  /\ UNCHANGED <<messages, maxSteps, options, files, routine, probe, systemPrompt, alive, sysInserts>>

(***************************************************************************)
(* The awaited tool function settles: its result or its failure is         *)
(* appended as a user message and the loop continues.                      *)
(***************************************************************************)
ToolSettles(c, outcome) ==
  /\ alive
  /\ calls[c].pc = "awaitTool"
  /\ outcome \in ToolOutcomes(calls[c].fn, calls[c].args)
  /\ LET rec == calls[c]
     IN  /\ messages' =
              IF outcome.kind = "throw"
              THEN Append(messages, ToolFailedMessage(rec.tool, ErrMessage(outcome)))
              ELSE IF rec.tool = "shots.capture" /\ outcome.isArray
              THEN Append(messages, ShotsMessage(rec.id, rec.tool, outcome.shots))
              ELSE Append(messages, ToolResultMessage(rec.id, rec.tool, outcome.value))
         /\ calls' = [calls EXCEPT ![c] = Pushed(NextStep(rec))]
  /\ UNCHANGED <<maxSteps, options, files, routine, probe, systemPrompt, alive, sysInserts>>

\* reset()
Reset ==
  /\ alive
  /\ messages' = <<>>
  /\ UNCHANGED <<maxSteps, options, files, routine, probe, systemPrompt, calls, alive, sysInserts>>

\* getHistory()
GetHistory ==
  /\ alive
  /\ UNCHANGED vars

\* The outcomes explored: the page is extracted; page.extract is called without
\* a url; the binary system.run is to spawn does not exist; Object(params).
Outcomes ==
  { Return("pageData"), ThrowError("page.extract requires 'url'"),
    ThrowObject("spawn no-such-binary ENOENT"), Return("{}") }

Next ==
  \/ \E input \in Lines : Line(input)
  \/ \E c \in CallIds : PromptLoaded(c)
  \/ \E c \in CallIds : PromptReadFails(c)
  \/ \E c \in CallIds, content \in Replies : ModelReply(c, content)
  \/ \E c \in CallIds : ModelFails(c)
  \/ \E c \in CallIds, outcome \in Outcomes : ToolSettles(c, outcome)
  \/ Reset
  \/ GetHistory

Spec == Init /\ [][Next]_vars

(***************************************************************************)
(* The session in which reset() is called only between run calls.          *)
(***************************************************************************)
ResetBetweenRuns == InFlight = {} /\ Reset

NextResetBetweenRuns ==
  \/ \E input \in Lines : Line(input)
  \/ \E c \in CallIds : PromptLoaded(c)
  \/ \E c \in CallIds : PromptReadFails(c)
  \/ \E c \in CallIds, content \in Replies : ModelReply(c, content)
  \/ \E c \in CallIds : ModelFails(c)
  \/ \E c \in CallIds, outcome \in Outcomes : ToolSettles(c, outcome)
  \/ ResetBetweenRuns
  \/ GetHistory

SpecResetBetweenRuns == Init /\ [][NextResetBetweenRuns]_vars


(***************************************************************************)
(* The session whose input lines arrive at any time.  The line handler     *)
(* starts run in an async block it does not wait for, so a line that       *)
(* arrives while an earlier run call is suspended starts a further one.    *)
(***************************************************************************)
ShellLine(input) ==
  /\ alive
  /\ LET userInput == Trim(input)
     IN  IF ToLowerCase(userInput) = "exit"
         THEN /\ alive' = FALSE
              /\ UNCHANGED <<messages, maxSteps, options, files, routine, probe, systemPrompt, calls, sysInserts>>
         ELSE /\ \E c \in CallIds :
                   /\ calls[c].pc = "none"
                   /\ \A d \in CallIds : d < c => calls[d].pc # "none"
                   /\ c * maxSteps <= MaxShellSteps
                   /\ calls' = [calls EXCEPT ![c] =
                        [NoCall EXCEPT !.pc = "loading", !.input = userInput,
                                       !.step = InitialStep(c),
                                       !.reading = ReadsPromptFile,
                                       !.shell = "AI: Working..."]]
              /\ UNCHANGED <<messages, maxSteps, options, files, routine, probe, systemPrompt, alive, sysInserts>>

NextShell ==
  \/ \E input \in Lines : ShellLine(input)
  \/ \E c \in CallIds : PromptLoaded(c)
  \/ \E c \in CallIds : PromptReadFails(c)
  \/ \E c \in CallIds, content \in Replies : ModelReply(c, content)
  \/ \E c \in CallIds : ModelFails(c)
  \/ \E c \in CallIds, outcome \in Outcomes : ToolSettles(c, outcome)
  \/ Reset
  \/ GetHistory

SpecShell == Init /\ [][NextShell]_vars

(***************************************************************************)
(* The session whose model also replies with JSON values that are no       *)
(* directive: an object without final: true and without tool, and a        *)
(* number.                                                                 *)
(***************************************************************************)
StepReplies ==
  { Text(<<"I will start by looking at the page.">>, FALSE, "", <<>>),
    Text(<<"Progress so far:">>, TRUE, "{\"final\":1}", <<>>),
    Text(<<>>, FALSE, "5", <<>>),
    Text(<<>>, FALSE, "{\"final\":true,\"summary\":\"done\",\"artifacts\":[\"index.html\"]}", <<>>),
    Text(<<>>, FALSE, "{\"tool\":\"page.extract\",\"params\":{\"url\":\"https://example.com\"},\"id\":\"s1\"}", <<>>) }

NextSteps ==
  \/ \E input \in Lines : Line(input)
  \/ \E c \in CallIds : PromptLoaded(c)
  \/ \E c \in CallIds : PromptReadFails(c)
  \/ \E c \in CallIds, content \in StepReplies : ModelReply(c, content)
  \/ \E c \in CallIds : ModelFails(c)
  \/ \E c \in CallIds, outcome \in Outcomes : ToolSettles(c, outcome)
  \/ Reset
  \/ GetHistory

SpecSteps == Init /\ [][NextSteps]_vars

(***************************************************************************)
(* The functions called on their own: extractJsonObject on the texts made  *)
(* of up to MaxProse chunks of prose, a body that may stand in a fenced    *)
(* block, and up to MaxProse chunks of prose.                              *)
(***************************************************************************)
ProseChunks == { "Here is the plan.", "Use {name", "as in name}", "<fence>" }

ProseTexts ==
  UNION { [1..n -> ProseChunks] : n \in 0..MaxProse }

Bodies ==
  { "",
    "{\"final\":true,\"summary\":\"done\",\"artifacts\":[\"index.html\"]}",
    "{\"final\":true,\"tool\":\"page.extract\"}",
    "{\"final\":1}",
    "{\"final\":false,\"tool\":\"page.extract\"}",
    "{\"tool\":\"page.extract\",\"params\":{\"url\":\"https://example.com\"},\"id\":\"s1\"}",
    "{\"tool\":\"\"}",
    "5", "[\"index.html\"]", "true" }

CallExtractJsonObject(pre, fenced, body, post) ==
  /\ probe.op = "none"
  /\ LET text == Text(pre, fenced, body, post)
         json == extractJsonObject(text)
     IN  probe' = [probe EXCEPT !.op = "extractJsonObject", !.pre = pre,
                                !.fenced = fenced, !.body = body, !.post = post,
                                !.text = text, !.json = json,
                                !.directive = Directive(json)]
  /\ UNCHANGED <<messages, maxSteps, options, files, routine, systemPrompt, calls, alive, sysInserts>>

\* A registry entry called with a parameter mapping.
ParameterMappings == { "{}", "{url}", "{command,background}" }

CallRegistryEntry(tool, args, outcome) ==
  /\ probe.op = "none"
  /\ outcome \in ToolOutcomes(tool, args)
  /\ probe' = [probe EXCEPT !.op = "toolRegistry", !.tool = tool, !.args = args,
                             !.outcome = outcome,
                             !.routineCalled = RoutineCalled(tool, args)]
  /\ UNCHANGED <<messages, maxSteps, options, files, routine, systemPrompt, calls, alive, sysInserts>>

EntryOutcomes ==
  UNION { ToolOutcomes(tool, args) : tool \in buildToolRegistry, args \in ParameterMappings }

NextFunctions ==
  \/ /\ probe.op = "none"
     /\ \E pre \in ProseTexts, fenced \in BOOLEAN, body \in Bodies, post \in ProseTexts :
          CallExtractJsonObject(pre, fenced, body, post)
  \/ /\ probe.op = "none"
     /\ \E tool \in buildToolRegistry, args \in ParameterMappings, outcome \in EntryOutcomes :
          CallRegistryEntry(tool, args, outcome)

\* The agent as the shell constructs it: new WebsiteCloneAgent({model, maxSteps: 20})
InitFunctions ==
  /\ messages = <<>>
  /\ options = [hasMaxSteps |-> TRUE, maxSteps |-> ShellMaxSteps]
  /\ maxSteps = Constructor(options)
  /\ probe = NoProbe
  /\ files = Files(PromptFile)
  /\ routine = NoRoutine
  /\ systemPrompt = "null"
  /\ calls = [c \in CallIds |-> NoCall]
  /\ alive = TRUE
  /\ sysInserts = 0

SpecFunctions == InitFunctions /\ [][NextFunctions]_vars

(***************************************************************************)
(* Vocabulary of the properties.                                           *)
(***************************************************************************)
IsPrefix(s, t) == Len(s) <= Len(t) /\ \A i \in 1..Len(s) : t[i] = s[i]

\* The step is call c receiving a model reply; NewReply(c) is that reply.
ReplyStep(c) == Len(calls'[c].replies) = Len(calls[c].replies) + 1
NewReply(c) == calls'[c].replies[Len(calls'[c].replies)]

\* The reply parses to an object whose final is the boolean true.
SaysFinal(content) ==
  LET json == extractJsonObject(content)
  IN  json.type = "object" /\ json.final = "true"

\* The reply is a tool call: an object with a tool name and without final: true.
NamesTool(content) ==
  LET json == extractJsonObject(content)
  IN  json.type = "object" /\ json.final # "true" /\ json.tool # "absent"

ToolNamed(content) == extractJsonObject(content).tool

NoFinalReply(c) ==
  \A i \in 1..Len(calls[c].replies) : ~SaysFinal(calls[c].replies[i])

\* C1: a run call invokes the model at most maxSteps times; when no reply is a
\* Final directive it invokes it exactly maxSteps times and then, once the last
\* reply's step is over, has returned in step exhaustion.
C1_StepBudget ==
  \A c \in CallIds :
    /\ calls[c].modelCalls <= maxSteps
    /\ Len(calls[c].replies) <= calls[c].modelCalls
    /\ (calls[c].pc \in {"final", "exhausted"} /\ NoFinalReply(c))
         => calls[c].pc = "exhausted" /\ calls[c].modelCalls = maxSteps
    /\ (Len(calls[c].replies) = maxSteps /\ NoFinalReply(c) /\ calls[c].pc # "awaitTool")
         => calls[c].pc = "exhausted" /\ calls[c].modelCalls = maxSteps

C1_Witness ==
  \E c \in CallIds :
    /\ calls[c].pc = "exhausted" /\ maxSteps = 2
    /\ calls[c].modelCalls = 2 /\ calls[c].toolCalls = 1
    /\ \E i \in 1..2 : extractJsonObject(calls[c].replies[i]) = JsonNull

\* C2: a reply that parses to an object with final exactly true makes run return
\* {final: true, result: that object} with no further model or tool invocation;
\* after k replies that call registered tools and then a Final reply the call has
\* made k + 1 model invocations and k tool invocations.
C2_FinalReturns ==
  [][\A c \in CallIds :
       /\ (ReplyStep(c) /\ SaysFinal(NewReply(c)))
            => /\ calls'[c].pc = "final"
               /\ calls'[c].final = TRUE
               /\ calls'[c].result = extractJsonObject(NewReply(c))
               /\ calls'[c].modelCalls = calls[c].modelCalls
               /\ calls'[c].toolCalls = calls[c].toolCalls
               /\ messages' = Append(messages, AIMessage(NewReply(c)))
       /\ calls[c].pc = "final" => calls'[c] = calls[c]
       /\ ( /\ calls'[c].pc = "final"
            /\ \A i \in 1..(Len(calls'[c].replies) - 1) :
                 /\ NamesTool(calls'[c].replies[i])
                 /\ ToolNamed(calls'[c].replies[i]) \in buildToolRegistry )
            => /\ calls'[c].modelCalls = Len(calls'[c].replies)
               /\ calls'[c].toolCalls = Len(calls'[c].replies) - 1
     ]_vars

C2_Witness ==
  \E c \in CallIds :
    /\ calls[c].pc = "final" /\ calls[c].input = "clone example.com"
    /\ calls[c].modelCalls = 2 /\ calls[c].toolCalls = 1
    /\ ToolNamed(calls[c].replies[1]) = "page.extract"
    /\ calls[c].result.final = "true"

\* C3: a run call whose step budget is used up without a Final directive returns
\* {final: false, result: null} and does not throw; when every reply was prose
\* without JSON it has made exactly maxSteps model invocations and no tool
\* invocation.
C3_ExhaustionReturns ==
  \A c \in CallIds :
    /\ (Len(calls[c].replies) = maxSteps /\ NoFinalReply(c) /\ calls[c].pc # "awaitTool")
         => /\ calls[c].pc = "exhausted"
            /\ calls[c].final = FALSE
            /\ calls[c].result = JsonNull
            /\ calls[c].error = ""
            /\ calls[c].shell = "No final result yet (max steps reached), prompt"
    /\ ( /\ calls[c].pc = "exhausted"
         /\ \A i \in 1..Len(calls[c].replies) :
              extractJsonObject(calls[c].replies[i]) = JsonNull )
         => calls[c].modelCalls = maxSteps /\ calls[c].toolCalls = 0

C3_Witness ==
  \E c \in CallIds :
    /\ calls[c].pc = "exhausted" /\ maxSteps = 2
    /\ Len(calls[c].replies) = 2
    /\ \A i \in 1..2 : extractJsonObject(calls[c].replies[i]) = JsonNull
    /\ calls[c].toolCalls = 0

\* C4: a tool call whose tool name is not a registered name invokes no function,
\* appends the assistant reply and exactly one corrective message naming the
\* tool, and goes on to a further model invocation if budget remains.
C4_UnknownToolNotInvoked ==
  [][\A c \in CallIds :
       ( /\ ReplyStep(c)
         /\ NamesTool(NewReply(c))
         /\ ToolNamed(NewReply(c)) \notin buildToolRegistry )
         => /\ calls'[c].toolCalls = calls[c].toolCalls
            /\ calls'[c].pc # "awaitTool"
            /\ messages' = messages \o <<AIMessage(NewReply(c)),
                                         ToolNotFoundMessage(ToolNamed(NewReply(c)))>>
            /\ (calls[c].step + 1 < maxSteps)
                 => /\ calls'[c].pc = "awaitModel"
                    /\ calls'[c].modelCalls = calls[c].modelCalls + 1
     ]_vars

\* C5: a tool call naming a registered tool invokes exactly that registry entry,
\* once in that step, with the directive's params, or with an empty mapping when
\* params is absent.
C5_RegisteredToolInvokedOnce ==
  [][\A c \in CallIds :
       /\ ( /\ ReplyStep(c)
            /\ NamesTool(NewReply(c))
            /\ ToolNamed(NewReply(c)) \in buildToolRegistry )
            => /\ calls'[c].pc = "awaitTool"
               /\ calls'[c].fn = ToolNamed(NewReply(c))
               /\ calls'[c].args =
                    IF extractJsonObject(NewReply(c)).params = "absent"
                    THEN "{}" ELSE extractJsonObject(NewReply(c)).params
               /\ calls'[c].toolCalls = calls[c].toolCalls + 1
       /\ calls[c].pc = "awaitTool" => calls'[c].toolCalls = calls[c].toolCalls
     ]_vars

C5_Witness ==
  \E c, d \in CallIds :
    /\ calls[c].pc = "awaitTool" /\ calls[c].fn = "page.extract" /\ calls[c].args = "{}"
    /\ calls[d].toolCalls = 1 /\ calls[d].fn = NoFn
    /\ \E i \in 1..Len(messages) : messages[i].kind = "result" /\ messages[i].tool = "page.extract"

\* C6: when the invocation of a registered tool throws or rejects, run does not
\* reject: it appends exactly one user message that names the tool and carries
\* the error's description, the step is consumed and the loop continues.
C6_ToolFailureReported ==
  [][\A c \in CallIds :
       ( /\ calls[c].pc = "awaitTool"
         /\ calls[c].fn \in buildToolRegistry
         /\ calls'[c] # calls[c]
         /\ messages'[Len(messages')].kind # "result" )
         => /\ \E o \in ToolOutcomes(calls[c].fn, calls[c].args) :
                 /\ o.kind = "throw"
                 /\ messages' = Append(messages, ToolFailedMessage(calls[c].tool, o.description))
            /\ calls'[c].step = calls[c].step + 1
            /\ calls'[c].pc \in {"awaitModel", "exhausted"}
     ]_vars

\* C7: a failing model invocation makes the run call reject with that failure:
\* no assistant message is appended for the step, no tool is invoked afterwards,
\* and the shell prints the error and prompts again.
C7_ModelFailurePropagates ==
  [][\A c \in CallIds :
       /\ ( /\ calls[c].pc = "awaitModel"
            /\ calls'[c] # calls[c]
            /\ ~ReplyStep(c) )
            => /\ calls'[c].pc = "rejected"
               /\ calls'[c].error = "model invocation failed"
               /\ calls'[c].shell = "AI Error: model invocation failed, prompt"
               /\ calls'[c].toolCalls = calls[c].toolCalls
               /\ messages' = messages
       /\ calls[c].pc = "rejected" => calls'[c] = calls[c]
     ]_vars

C7_Witness ==
  \E c \in CallIds :
    /\ calls[c].pc = "rejected" /\ calls[c].error = "model invocation failed"
    /\ calls[c].modelCalls = 2 /\ calls[c].toolCalls = 1
    /\ Len(messages) > 0 /\ messages[Len(messages)].kind = "result"

C9_AppendOnly == [][IsPrefix(messages, messages')]_vars

\* C9 amended: every step of a run call and getHistory keep the earlier history
\* as a prefix of the later one; only reset removes messages, and it removes
\* all of them.
C9_AppendOnlyUntilReset ==
  [][IsPrefix(messages, messages') \/ (Len(messages') = 0 /\ calls' = calls)]_vars

C9_Witness ==
  /\ Len(messages) >= 6
  /\ \E c, d \in CallIds : c # d /\ calls[c].pc = "exhausted" /\ calls[d].pc = "final"

\* C10: a further run call on an agent whose earlier run has ended finds the
\* history non-empty, inserts no second system message, appends its user input
\* directly after the history it finds and then invokes the model; no step of a
\* run call changes the history it found.
C10_RunResumesHistory ==
  [][\A c \in CallIds :
       /\ ( /\ calls[c].pc = "loading"
            /\ calls'[c].pc \notin {"loading", "rejected"}
            /\ Len(messages) > 0 )
            => /\ messages' = Append(messages, HumanMessage(calls[c].input))
               /\ sysInserts' = sysInserts
               /\ calls'[c].pc = "awaitModel"
               /\ calls'[c].modelCalls = 1
       /\ calls'[c] # calls[c] => IsPrefix(messages, messages')
     ]_vars

C10_Witness ==
  \E c, d \in CallIds :
    /\ c # d
    /\ calls[c].pc \in {"final", "exhausted"}
    /\ calls[d].pc = "awaitModel" /\ calls[d].modelCalls = 1
    /\ Len(messages) >= 4
    /\ messages[Len(messages)] = HumanMessage(calls[d].input)
    /\ messages[1].role = "system"
    /\ sysInserts = 1

\* C11: in one session driven by the shell, whatever the timing of the input
\* lines, at most one run call is inside a step (awaiting its model reply or its
\* tool) at any moment, so no two steps and no two tool invocations overlap.
C11_StepsNeverOverlap ==
  Cardinality({ c \in CallIds : calls[c].pc \in {"awaitModel", "awaitTool"} }) <= 1

(***************************************************************************)
(* Vocabulary of the properties of extractJsonObject.                      *)
(***************************************************************************)
Extracted == probe.op = "extractJsonObject"

\* The JSON value the body of the probed text is.
ProbedBody == JSONparse(probe.body)

HoldsFence(prose) == \E i \in 1..Len(prose) : IsFence(prose[i])
HoldsBrace(prose) ==
  \E i \in 1..Len(prose) : HasOpenBrace(prose[i]) \/ HasCloseBrace(prose[i])

\* The body stands alone, or in the first fenced block of the text, or between
\* prose that holds no brace and no fence line.
BodyInReach ==
  \/ probe.fenced /\ ~HoldsFence(probe.pre)
  \/ /\ ~probe.fenced
     /\ ~HoldsFence(probe.pre) /\ ~HoldsFence(probe.post)
     /\ ~HoldsBrace(probe.pre) /\ ~HoldsBrace(probe.post)

C14_ObjectOrNull ==
  Extracted => probe.json.type \in {"object", "null"}

\* The reply is no directive: nothing parseable, or a value that neither has
\* final: true nor names a tool.
SaysNothing(content) == ~SaysFinal(content) /\ ~NamesTool(content)

\* C15: a step whose reply is no directive appends the assistant reply and
\* nothing else, invokes no tool, and goes on to the next step: a further model
\* invocation if budget remains, the return in step exhaustion otherwise.
C15_NoneStep ==
  [][\A c \in CallIds :
       (ReplyStep(c) /\ SaysNothing(NewReply(c)))
         => /\ messages' = Append(messages, AIMessage(NewReply(c)))
            /\ calls'[c].toolCalls = calls[c].toolCalls
            /\ calls'[c].fn = NoFn
            /\ calls'[c].step = calls[c].step + 1
            /\ IF calls[c].step + 1 < maxSteps
               THEN /\ calls'[c].pc = "awaitModel"
                    /\ calls'[c].modelCalls = calls[c].modelCalls + 1
               ELSE /\ calls'[c].pc = "exhausted"
                    /\ calls'[c].modelCalls = calls[c].modelCalls
     ]_vars

C15_Witness ==
  \E c \in CallIds :
    /\ calls[c].pc = "awaitModel" /\ calls[c].step = 1 /\ calls[c].modelCalls = 2
    /\ Len(calls[c].replies) = 1
    /\ extractJsonObject(calls[c].replies[1]).type = "object"
    /\ SaysNothing(calls[c].replies[1])
    /\ Len(messages) = 3 /\ messages[3] = AIMessage(calls[c].replies[1])
    /\ calls[c].toolCalls = 0

\* The run call has returned and every one of its steps was a tool-call step,
\* but for a last Final step.
ToolStepsOnly(c) ==
  /\ calls[c].pc \in {"final", "exhausted"}
  /\ \A i \in 1..Len(calls[c].replies) :
       NamesTool(calls[c].replies[i]) \/ SaysFinal(calls[c].replies[i])

ToolSteps(c) ==
  Cardinality({ i \in 1..Len(calls[c].replies) : NamesTool(calls[c].replies[i]) })

FinalStep(c) == IF calls[c].pc = "final" THEN 1 ELSE 0

\* The run call is the first of the session to get to the conversation.
FirstRun(c) == \A d \in CallIds : d < c => calls[d].appended = 0

\* C16 as stated: a run of N tool-call steps and no None step has grown the
\* conversation by 1 + 2N messages, plus 1 if it ended with a Final reply, plus
\* 1 for the system message on the first run of the session only.
C16_HistoryGrowth ==
  \A c \in CallIds :
    ToolStepsOnly(c) =>
      calls[c].appended =
        1 + 2 * ToolSteps(c) + FinalStep(c) + (IF FirstRun(c) THEN 1 ELSE 0)

\* C16 amended: a run of N tool-call steps and no None step has appended
\* 1 + 2N messages, plus 1 if it ended with a Final reply, plus 1 for the system
\* message whenever it found the conversation empty: on the first run of the
\* session and again on the first run after a reset.
C16_HistoryGrowthFromEmpty ==
  \A c \in CallIds :
    ToolStepsOnly(c) =>
      calls[c].appended =
        1 + 2 * ToolSteps(c) + FinalStep(c) + (IF calls[c].foundEmpty THEN 1 ELSE 0)

C16_Witness ==
  \E c, d \in CallIds :
    /\ c < d
    /\ ToolStepsOnly(c) /\ calls[c].pc = "exhausted" /\ ToolSteps(c) = 2
    /\ calls[c].foundEmpty /\ calls[c].appended = 6
    /\ ToolStepsOnly(d) /\ calls[d].pc = "final" /\ ToolSteps(d) = 1
    /\ calls[d].foundEmpty /\ calls[d].appended = 5
    /\ Len(messages) = 5

\* C17: once a registered tool other than shots.capture has returned R for the
\* directive with id I and tool T, the user message appended for it has the
\* serialization of {id: I, tool: T, ok: true, result: R} as its content.
C17_ResultIsContent ==
  \A i \in 1..Len(messages) :
    ( /\ messages[i].kind = "result"
      /\ messages[i].tool \in buildToolRegistry \ {"shots.capture"} )
      => MessageContent(messages[i]) =
           JSONstringifyResult(messages[i].id, messages[i].tool, messages[i].result)

\* C18: every model invocation is given the whole conversation as it stands at
\* that moment, in append order, and when the step before it ended with a tool
\* returning, the content of the last message it is given holds that result.
C18_ContextIsHistory ==
  [][\A c \in CallIds :
       calls'[c].modelCalls = calls[c].modelCalls + 1
         => /\ IsPrefix(messages, ModelInput)
            /\ \A i \in 1..Len(ModelInput) : ModelInput[i] = messages'[i]
            /\ (calls[c].pc = "awaitTool" /\ messages'[Len(messages')].kind = "result")
                 => LET last == ModelInput[Len(ModelInput)]
                    IN  MessageContent(last) =
                          JSONstringifyResult(calls[c].id, calls[c].tool, last.result)
     ]_vars

\* C19: the number of steps run enforces is the maxSteps value the constructor
\* was given; the default of 20 is used only when it was given none.
C19_ConfiguredMaxSteps ==
  /\ options.hasMaxSteps => maxSteps = options.maxSteps
  /\ ~options.hasMaxSteps => maxSteps = DefaultMaxSteps
  /\ \A c \in CallIds :
       options.hasMaxSteps => calls[c].modelCalls <= options.maxSteps

\* The description of a failure names the field.
NamesField(description, field) ==
  <<description, field>> \in
    { <<"page.extract requires 'url'", "url">>,
      <<"shots.capture requires 'url'", "url">>,
      <<"Failed to glob files: Pattern must be a non-empty string", "pattern">> }

\* C20: a registry entry called with a parameter mapping that lacks its
\* required key ends in a failure whose description names the missing field;
\* page.extract and shots.capture fail before their routine is called.
C20_MissingKeyFails ==
  ( /\ probe.op = "toolRegistry"
    /\ RequiredKey(probe.tool) \notin KeysOf(probe.args) )
    => /\ probe.outcome.kind = "throw"
       /\ NamesField(probe.outcome.description, RequiredKey(probe.tool))
       /\ probe.tool \in {"page.extract", "shots.capture"} => ~probe.routineCalled

(***************************************************************************)
(* The session whose system prompt file holds any of the contents          *)
(* explored, the empty file among them.                                    *)
(***************************************************************************)
PromptFiles == { PromptFile, "" }

InitPromptFiles ==
  /\ messages = <<>>
  /\ options \in ConstructorOptions
  /\ maxSteps = Constructor(options)
  /\ probe = NoProbe
  /\ files \in { Files(prompt) : prompt \in PromptFiles }
  /\ routine = NoRoutine
  /\ systemPrompt = "null"
  /\ calls = [c \in CallIds |-> NoCall]
  /\ alive = TRUE
  /\ sysInserts = 0

SpecPromptFiles == InitPromptFiles /\ [][Next]_vars

\* The step is the call of run that starts call c.
RunCalled(c) == calls[c].pc = "none" /\ calls'[c].pc = "loading"

\* C21: once a run call has loaded the system prompt resource, no later run
\* call of the session reads the resource again, whatever the resource holds.
C21_PromptReadOnce ==
  [][\A c \in CallIds :
       (RunCalled(c) /\ \E d \in CallIds : calls[d].loaded) => ~calls'[c].reading
     ]_vars

(***************************************************************************)
(* The session whose model asks for screenshots: shots.capture returns the *)
(* array of its three captures, or fails.                                  *)
(***************************************************************************)
CaptureReplies ==
  { Text(<<>>, FALSE, "{\"tool\":\"shots.capture\",\"params\":{\"url\":\"https://example.com\"},\"id\":\"s3\"}", <<>>),
    Text(<<>>, FALSE, "{\"tool\":\"page.extract\",\"params\":{\"url\":\"https://example.com\"},\"id\":\"s1\"}", <<>>),
    Text(<<>>, FALSE, "{\"final\":true,\"summary\":\"done\",\"artifacts\":[\"index.html\"]}", <<>>) }

CaptureOutcomes ==
  { ReturnShots(shots) : shots \in ShotResults }
    \cup { Return("pageData"), ThrowError("Navigation failed after 3 attempts") }

NextCapture ==
  \/ \E input \in Lines : Line(input)
  \/ \E c \in CallIds : PromptLoaded(c)
  \/ \E c \in CallIds : PromptReadFails(c)
  \/ \E c \in CallIds, content \in CaptureReplies : ModelReply(c, content)
  \/ \E c \in CallIds : ModelFails(c)
  \/ \E c \in CallIds, outcome \in CaptureOutcomes : ToolSettles(c, outcome)
  \/ Reset
  \/ GetHistory

SpecCapture == Init /\ [][NextCapture]_vars

\* The contents a message object can have once it is constructed from an
\* array argument: the message constructor of the installed @langchain/core
\* either takes an array argument as the content or, reading the content field
\* of its argument, finds none.
MessageContents(m) ==
  IF m.field = "array"
  THEN { [defined |-> TRUE, parts |-> m.parts], [defined |-> FALSE, parts |-> <<>>] }
  ELSE { [defined |-> MessageContent(m).defined, parts |-> m.parts] }

\* The entries of a screenshot result that are artifacts: those with a file.
Artifacts(result) == SelectSeq(result, LAMBDA shot : shot.file # "null")

\* The step is call c receiving what its tool call settled with.
ToolSettled(c) == calls[c].pc = "awaitTool" /\ calls'[c].pc # "awaitTool"

\* C22: when shots.capture has returned, the user message appended for it has a
\* multi-part content: first the one text part, the summary of id, tool, ok and
\* the viewport, file and error of every entry, then one image part for every
\* screenshot artifact of the result, in result order, each the data URL of
\* that artifact's file.
C22_MultiPartMessage ==
  [][\A c \in CallIds :
       ( /\ ToolSettled(c)
         /\ calls[c].tool = "shots.capture"
         /\ messages'[Len(messages')].kind = "shots" )
         => \E result \in ShotResults :
              LET artifacts == Artifacts(result)
                  expected ==
                    <<TextPart(calls[c].id, "shots.capture", result)>>
                      \o [i \in 1..Len(artifacts) |-> ImagePart(artifacts[i].file)]
              IN  /\ messages'[Len(messages')].result = "screenshots"
                  /\ messages'[Len(messages')].parts[1] = expected[1]
                  /\ \A content \in MessageContents(messages'[Len(messages')]) :
                       content.defined /\ content.parts = expected
     ]_vars

(***************************************************************************)
(* runShellCommand(command, options), called on its own.  It is an async   *)
(* function: a throw is a rejection.  An action is the code between two    *)
(* awaits; execSync blocks, so an attempt and what follows it up to the    *)
(* wait for the retry timer is one step.                                   *)
(***************************************************************************)
Commands ==
  { "ls -la", "no-such-binary", "npm start", "mkdir desktop",
    "rm -rf /", "echo x > /dev/sda", "mkfs.ext4 /dev/sdb1",
    "dd if=/dev/zero of=/dev/sda", ":(){ :|:& };:", "npm start && rm -rf /" }

\* The regular expressions of isCommandSafe, by source text.
dangerousPatterns ==
  { "rm\\s+-rf\\s+\\/", ">\\s*\\/dev\\/sd", "mkfs", "dd\\s+if=.*of=\\/dev",
    ":(){ :|:& };:" }

\* pattern.test(command) for the commands explored.  The last pattern is the
\* alternation of ":(){ :" (an empty group, then the literal "{ :") and
\* ":& };:", and the fork bomb holds the second alternative.
PatternTest(pattern, command) ==
  CASE pattern = "rm\\s+-rf\\s+\\/" -> command \in {"rm -rf /", "npm start && rm -rf /"}
    [] pattern = ">\\s*\\/dev\\/sd" -> command = "echo x > /dev/sda"
    [] pattern = "mkfs" -> command = "mkfs.ext4 /dev/sdb1"
    [] pattern = "dd\\s+if=.*of=\\/dev" -> command = "dd if=/dev/zero of=/dev/sda"
    [] pattern = ":(){ :|:& };:" -> command = ":(){ :|:& };:"
    [] OTHER -> FALSE

\* Variant: the check lets every command through.
isCommandSafeAlways(command) == TRUE

\* isCommandSafe(command)
isCommandSafe(command) ==
  ~\E pattern \in dangerousPatterns : PatternTest(pattern, command)

\* isLongRunningCommand(command): /npm\s+start/ and /top/ match here
isLongRunningCommand(command) ==
  command \in {"npm start", "npm start && rm -rf /", "mkdir desktop"}

DefaultRetries == 3
MaxRetries == 3      \* largest retries option explored

\* fs.existsSync(cwd)
ExistingDirectories == { "/root/site" }

\* The options explored: retries absent or 0..MaxRetries, background,
\* interactive, and a working directory that exists or does not.
ShellOptions ==
  { o \in [hasRetries : BOOLEAN, retries : 0..MaxRetries, background : BOOLEAN,
           interactive : BOOLEAN, cwd : {"/root/site", "/no/such/dir"}] :
      ~o.hasRetries => o.retries = 0 }

\* const { retries = 3 } = options
RetriesOf(opts) == IF opts.hasRetries THEN opts.retries ELSE DefaultRetries

\* What an execSync call ends in: it returns the output, or it throws an error
\* with a non-zero status, with code ENOENT, or with signal SIGKILL.
ExecOutcomes == { "ok", "failed", "ENOENT", "SIGKILL" }

NoResult == [kind |-> "none", success |-> FALSE, attempt |-> 0, attempts |-> 0,
             error |-> "", background |-> FALSE]

\* return { command, success: true, ..., exitCode: 0, duration, attempt }
ReturnSuccess(attempt) ==
  [kind |-> "return", success |-> TRUE, attempt |-> attempt, attempts |-> 0,
   error |-> "", background |-> FALSE]

\* return finalError: { command, success: false, output, error, exitCode,
\* signal, attempts: retries }
ReturnFinalError(lastError, retries) ==
  [kind |-> "return", success |-> FALSE, attempt |-> 0, attempts |-> retries,
   error |-> lastError, background |-> FALSE]

Rejected(error) ==
  [kind |-> "throw", success |-> FALSE, attempt |-> 0, attempts |-> 0,
   error |-> error, background |-> FALSE]

\* After the loop: lastError.stdout is read, which throws a TypeError when no
\* attempt was made and lastError is still undefined.
AfterLoop(r) ==
  IF r.lastError = "undefined"
  THEN [r EXCEPT !.pc = "thrown",
                 !.result = Rejected("Cannot read properties of undefined (reading 'stdout')")]
  ELSE [r EXCEPT !.pc = "returned", !.result = ReturnFinalError(r.lastError, r.retries)]

\* Variant: the wait also follows the last attempt.
WaitsBeforeRetryAlways(attempt, retries) == TRUE

\* if (attempt < retries) await new Promise(resolve => setTimeout(resolve, 2000))
WaitsBeforeRetry(attempt, retries) == attempt < retries

\* catch (error): lastError = error; break on ENOENT or SIGKILL; the wait when
\* a further attempt follows; else the loop test fails and the loop ends.
FailedAttempt(r, outcome) ==
  LET e == [r EXCEPT !.lastError = outcome, !.trace = Append(r.trace, outcome)]
  IN  IF outcome \in {"ENOENT", "SIGKILL"} THEN AfterLoop(e)
      ELSE IF WaitsBeforeRetry(e.attempt, e.retries)
      THEN [e EXCEPT !.pc = "waiting", !.trace = Append(e.trace, "wait")]
      ELSE AfterLoop(e)

\* One iteration of for (let attempt = 1; attempt <= retries; attempt++), from
\* the loop test to the return, the wait or the end of the loop.
Attempt(r, outcome) ==
  IF ~(r.attempt <= r.retries) THEN AfterLoop(r)
  ELSE IF outcome = "ok"
  THEN [r EXCEPT !.pc = "returned", !.execs = @ + 1, !.trace = Append(@, "ok"),
                 !.result = ReturnSuccess(r.attempt)]
  ELSE FailedAttempt([r EXCEPT !.execs = @ + 1], outcome)

StartedRoutine(command, opts) ==
  [op |-> "runShellCommand", pc |-> "called", command |-> command, opts |-> opts,
   retries |-> RetriesOf(opts), attempt |-> 1, execs |-> 0, spawns |-> 0,
   trace |-> <<>>, lastError |-> "undefined", result |-> NoResult]

runShellCommand(command, opts, outcome) ==
  /\ routine.op = "none"
  /\ LET r == StartedRoutine(command, opts)
     IN  routine' =
           IF ~isCommandSafe(command)
           THEN [r EXCEPT !.pc = "thrown",
                   !.result = Rejected("Command appears to be potentially dangerous and was blocked for safety")]
           ELSE IF opts.cwd \notin ExistingDirectories
           THEN [r EXCEPT !.pc = "thrown",
                   !.result = Rejected("Working directory does not exist: " \o opts.cwd)]
           ELSE IF opts.background \/ isLongRunningCommand(command)
           THEN [r EXCEPT !.pc = "spawning", !.spawns = @ + 1]
           ELSE Attempt(r, outcome)
  /\ UNCHANGED <<messages, maxSteps, options, files, probe, systemPrompt, calls, alive, sysInserts>>

\* The retry timer fires: attempt++ and the next iteration.
RetryTimer(outcome) ==
  /\ routine.op = "runShellCommand"
  /\ routine.pc = "waiting"
  /\ routine' = Attempt([routine EXCEPT !.attempt = @ + 1], outcome)
  /\ UNCHANGED <<messages, maxSteps, options, files, probe, systemPrompt, calls, alive, sysInserts>>

\* The child process emits 'spawn' (resolve) or 'error' (reject with a plain
\* object).
ChildEvents == { "spawn", "error" }

ChildEvent(event) ==
  /\ routine.op = "runShellCommand"
  /\ routine.pc = "spawning"
  /\ routine' =
       IF event = "spawn"
       THEN [routine EXCEPT !.pc = "returned",
               !.result = [ReturnSuccess(0) EXCEPT !.background = TRUE]]
       ELSE [routine EXCEPT !.pc = "thrown",
               !.result = [Rejected("spawn ENOENT") EXCEPT !.background = TRUE]]
  /\ UNCHANGED <<messages, maxSteps, options, files, probe, systemPrompt, calls, alive, sysInserts>>

NextRunShellCommand ==
  \/ /\ routine.op = "none"
     /\ \E command \in Commands, opts \in ShellOptions, outcome \in ExecOutcomes :
          runShellCommand(command, opts, outcome)
  \/ \E outcome \in ExecOutcomes : RetryTimer(outcome)
  \/ \E event \in ChildEvents : ChildEvent(event)

SpecRunShellCommand == InitFunctions /\ [][NextRunShellCommand]_vars

\* The command matches one of the dangerous patterns.
MatchesDangerous(command) ==
  \E pattern \in dangerousPatterns : PatternTest(pattern, command)

\* C23: for a command that matches a dangerous pattern runShellCommand starts
\* no process, neither by spawn nor by execSync, whatever the options are,
\* background and interactive included; the call is rejected before any
\* execution.
C23_DangerousNeverStarted ==
  (routine.op = "runShellCommand" /\ MatchesDangerous(routine.command))
    => /\ routine.execs = 0
       /\ routine.spawns = 0
       /\ routine.trace = <<>>
       /\ routine.pc = "thrown"
       /\ routine.result.kind = "throw"
       /\ routine.result.error =
            "Command appears to be potentially dangerous and was blocked for safety"

C23_Witness ==
  /\ routine.op = "runShellCommand"
  /\ routine.command = "npm start && rm -rf /"
  /\ routine.opts.background /\ routine.opts.interactive
  /\ routine.pc = "thrown" /\ routine.spawns = 0

\* The call runs in foreground mode: the command passes the safety check, the
\* working directory exists, and neither the background option nor a
\* long-running pattern sends it to spawn.
Foreground(r) ==
  /\ r.op = "runShellCommand"
  /\ ~MatchesDangerous(r.command)
  /\ r.opts.cwd \in ExistingDirectories
  /\ ~r.opts.background
  /\ ~isLongRunningCommand(r.command)

\* The attempts among the first n events of the call.
AttemptsIn(trace, n) == Cardinality({ i \in 1..n : trace[i] # "wait" })

\* C24: in foreground mode the command is executed at most retries times; the
\* call returns at the first attempt that succeeds, with attempt the number of
\* that attempt; a 2 second wait stands between two consecutive attempts and
\* none follows the last attempt; an attempt that fails with ENOENT or SIGKILL
\* is the last one.
C24_ForegroundRetries ==
  Foreground(routine) =>
    LET t == routine.trace
    IN  /\ routine.execs = AttemptsIn(t, Len(t))
        /\ routine.execs <= routine.retries
        /\ routine.spawns = 0
        /\ \A i \in 1..Len(t) :
             /\ t[i] = "ok" =>
                  /\ i = Len(t) /\ routine.pc = "returned"
                  /\ routine.result.success
                  /\ routine.result.attempt = AttemptsIn(t, i)
             /\ t[i] \in {"ENOENT", "SIGKILL"} =>
                  i = Len(t) /\ routine.pc = "returned" /\ ~routine.result.success
             /\ (t[i] = "failed" /\ i < Len(t)) => t[i + 1] = "wait"
             /\ t[i] = "wait" =>
                  /\ i > 1 /\ t[i - 1] = "failed"
                  /\ AttemptsIn(t, i) < routine.retries
                  /\ IF i = Len(t) THEN routine.pc = "waiting" ELSE t[i + 1] # "wait"

C24_Witness ==
  /\ Foreground(routine)
  /\ routine.retries = 3
  /\ routine.trace = <<"failed", "wait", "failed", "wait", "ok">>
  /\ routine.result.attempt = 3

\* The call has ended and no attempt of it succeeded.
FailedEveryAttempt(r) ==
  /\ r.pc \in {"returned", "thrown"}
  /\ \A i \in 1..Len(r.trace) : r.trace[i] # "ok"

\* C25: in foreground mode, whatever retries is, a command that fails on every
\* attempt makes runShellCommand return a result with success false; the call
\* does not throw.
C25_FailureIsReturned ==
  (Foreground(routine) /\ FailedEveryAttempt(routine))
    => /\ routine.pc = "returned"
       /\ routine.result.kind = "return"
       /\ ~routine.result.success

(***************************************************************************)
(* replace(filePath, searchValue, replaceValue, options), called on its    *)
(* own on a file whose content is a sequence of words.                     *)
(***************************************************************************)
MaxWords == 3        \* words in the file replace is called on

Words == { "foo", "Foo", "bar" }

Contents == UNION { [1..n -> Words] : n \in 0..MaxWords }

\* The search values: the strings "foo" and "bar", and the regular expressions
\* /foo/g, /foo/, /(f)(oo)/g and /(f)(oo)/, each by the word it matches, its
\* global flag and the number of its capture groups.
SearchValue(isRegExp, word, global, groups) ==
  [isRegExp |-> isRegExp, word |-> word, global |-> global, groups |-> groups]

SearchValues ==
  { SearchValue(FALSE, "foo", TRUE, 0), SearchValue(FALSE, "bar", TRUE, 0),
    SearchValue(TRUE, "foo", TRUE, 0), SearchValue(TRUE, "foo", FALSE, 0),
    SearchValue(TRUE, "foo", TRUE, 2), SearchValue(TRUE, "foo", FALSE, 2) }

ReplaceOptions == [backup : BOOLEAN, dryRun : BOOLEAN, caseSensitive : BOOLEAN]

LowerCase(word) == IF word = "Foo" THEN "foo" ELSE word

\* The places the regular expression matches at: a string search value is
\* escaped and compiled with the flag g, and with i when caseSensitive is off.
MatchPlaces(content, searchValue, opts) ==
  { i \in 1..Len(content) :
      IF ~searchValue.isRegExp /\ ~opts.caseSensitive
      THEN LowerCase(content[i]) = LowerCase(searchValue.word)
      ELSE content[i] = searchValue.word }

\* originalContent.match(regex): null without a match; with the flag g the
\* array of all matches; without it the first match followed by its groups.
MatchArrayLength(content, searchValue, opts) ==
  LET places == MatchPlaces(content, searchValue, opts)
  IN  IF places = {} THEN 0
      ELSE IF searchValue.global THEN Cardinality(places)
      ELSE 1 + searchValue.groups

\* originalContent.replace(regex, replaceValue): every match with the flag g,
\* the first match without it
ReplaceIn(content, searchValue, replaceValue, opts) ==
  LET places == MatchPlaces(content, searchValue, opts)
      replaced == IF searchValue.global \/ places = {} THEN places
                  ELSE { Least(places) }
  IN  [i \in 1..Len(content) |-> IF i \in replaced THEN replaceValue ELSE content[i]]

\* if (!dryRun && replacements > 0)
WritesFile(opts, replacements) == ~opts.dryRun /\ replacements > 0

\* What the file system calls of the write branch end in: both succeed,
\* fs.copyFile is refused, or fs.writeFile is refused (the file is not opened).
FsOutcomes == { "ok", "copyFails", "writeFails" }

\* fs.copyFile(absolutePath, backupPath) with backup on: it throws out of
\* replace before anything is written.
CopyThrows(opts, fsOutcome) == opts.backup /\ fsOutcome = "copyFails"

\* Variant: the new content is written first and the backup is copied from the
\* written file.
WriteThenBackup(f, opts, newContent, fsOutcome) ==
  LET written == IF fsOutcome = "writeFails" THEN f
                 ELSE [f EXCEPT !.content = newContent, !.writes = @ + 1]
  IN  IF fsOutcome = "writeFails" \/ ~opts.backup \/ fsOutcome = "copyFails"
      THEN written
      ELSE [written EXCEPT !.backups = Append(@, written.content)]

\* if (backup) await fs.copyFile(absolutePath, backupPath);
\* await fs.writeFile(absolutePath, newContent, 'utf8')
BackupThenWrite(f, opts, newContent, fsOutcome) ==
  LET copied == IF opts.backup THEN [f EXCEPT !.backups = Append(@, f.content)]
                ELSE f
  IN  IF CopyThrows(opts, fsOutcome) THEN f
      ELSE IF fsOutcome = "writeFails" THEN copied
      ELSE [copied EXCEPT !.content = newContent, !.writes = @ + 1]

replace(searchValue, replaceValue, opts, fsOutcome) ==
  /\ routine.op = "none"
  /\ LET replacements == MatchArrayLength(files.content, searchValue, opts)
         newContent == ReplaceIn(files.content, searchValue, replaceValue, opts)
         called == [op |-> "replace", searchValue |-> searchValue,
                    replaceValue |-> replaceValue, opts |-> opts,
                    existed |-> files.exists, originalContent |-> files.content]
         thrown(error) == [pc |-> "thrown", replacements |-> 0, changed |-> FALSE,
                           error |-> "Failed to replace content: " \o error]
                            @@ called
     IN  IF ~files.exists
         THEN /\ routine' = thrown("File not found")
              /\ files' = files
         ELSE IF WritesFile(opts, replacements)
         THEN /\ routine' =
                   IF CopyThrows(opts, fsOutcome) \/ fsOutcome = "writeFails"
                   THEN thrown("EACCES: permission denied")
                   ELSE [pc |-> "returned", replacements |-> replacements,
                         changed |-> replacements > 0, error |-> ""] @@ called
              /\ files' = BackupThenWrite(files, opts, newContent, fsOutcome)
         ELSE /\ routine' = [pc |-> "returned", replacements |-> replacements,
                              changed |-> replacements > 0, error |-> ""]
                               @@ called
              /\ files' = files
  /\ UNCHANGED <<messages, maxSteps, options, probe, systemPrompt, calls, alive, sysInserts>>

NextReplace ==
  \E searchValue \in SearchValues, replaceValue \in {"baz"}, opts \in ReplaceOptions,
     fsOutcome \in FsOutcomes :
    replace(searchValue, replaceValue, opts, fsOutcome)

InitReplace ==
  /\ messages = <<>>
  /\ options = [hasMaxSteps |-> TRUE, maxSteps |-> ShellMaxSteps]
  /\ maxSteps = Constructor(options)
  /\ probe = NoProbe
  /\ files \in { [Files(PromptFile) EXCEPT !.exists = TRUE, !.content = content] :
                   content \in Contents } \cup { Files(PromptFile) }
  /\ routine = NoRoutine
  /\ systemPrompt = "null"
  /\ calls = [c \in CallIds |-> NoCall]
  /\ alive = TRUE
  /\ sysInserts = 0

SpecReplace == InitReplace /\ [][NextReplace]_vars

\* The matches the search finds in the content: all of them for a string and
\* for a regular expression with the flag g, the first one without the flag.
MatchesFound(content, searchValue, opts) ==
  LET places == MatchPlaces(content, searchValue, opts)
  IN  IF searchValue.global THEN Cardinality(places)
      ELSE IF places = {} THEN 0 ELSE 1

\* C26: replace called with dryRun true does not write the file and makes no
\* backup, whatever the search value and the number of matches are: the file
\* holds afterwards what it held before, and the replacements count returned is
\* the number of matches found.
C26_DryRunLeavesFile ==
  (routine.op = "replace" /\ routine.opts.dryRun)
    => /\ files.content = routine.originalContent
       /\ files.exists = routine.existed
       /\ files.writes = 0
       /\ files.backups = <<>>
       /\ routine.pc = "returned" =>
            routine.replacements =
              MatchesFound(routine.originalContent, routine.searchValue, routine.opts)

(***************************************************************************)
(* extractPageData(url, outputDir, options) and                            *)
(* takeResponsiveScreenshots(url, outputDir, options), called on their own *)
(* for a url.  Both hold the same navigation loop.  An action is the code  *)
(* between two awaits; the awaits of the browser set-up are taken          *)
(* together, with the outcomes that differ in what they leave behind.      *)
(***************************************************************************)
DefaultNavigationRetries == 3

\* The urls the routines are called with: two pages of one host, one of them
\* under the www. name, and a page of another host.
Urls ==
  { "https://example.com/", "https://www.example.com/pricing", "https://example.org/" }

\* new URL(url).hostname
hostname(url) ==
  CASE url = "https://example.com/" -> "example.com"
    [] url = "https://www.example.com/pricing" -> "www.example.com"
    [] url = "https://example.org/" -> "example.org"

\* hostname.replace(/^www\./, '')
RemoveWww(host) == IF host = "www.example.com" THEN "example.com" ELSE host

\* Variant: the key is the url itself.
getWebsiteKeyUrl(url) == url

\* getWebsiteKey(url)
getWebsiteKey(url) == RemoveWww(hostname(url))

\* const { retries = 3, useCache = true } = options
PageOptions ==
  { o \in [hasRetries : BOOLEAN, retries : 0..MaxRetries, useCache : BOOLEAN] :
      ~o.hasRetries => o.retries = 0 }

NavigationRetriesOf(opts) ==
  IF opts.hasRetries THEN opts.retries ELSE DefaultNavigationRetries

\* The result of a call; url is the url field of the data extractPageData
\* returns.
NoPageResult ==
  [kind |-> "none", cached |-> FALSE, error |-> "", shots |-> <<>>, url |-> ""]

PageReturn(cached, shots) ==
  [kind |-> "return", cached |-> cached, error |-> "", shots |-> shots, url |-> ""]

PageThrow(error) ==
  [kind |-> "throw", cached |-> FALSE, error |-> error, shots |-> <<>>, url |-> ""]

StartedPageRoutine(op, url, opts) ==
  [op |-> op, pc |-> "called", url |-> url, websiteKey |-> getWebsiteKey(url),
   timestamp |-> files.now, opts |-> opts, retries |-> NavigationRetriesOf(opts),
   attempt |-> 1, trace |-> <<>>, lastError |-> "undefined",
   launched |-> FALSE, closed |-> FALSE, worked |-> FALSE,
   cacheFileRead |-> FALSE, indexWritten |-> FALSE, result |-> NoPageResult]

\* if (lastError && retries > 0): lastError is set by every failed attempt and
\* is not cleared by a later attempt that succeeds.
NavigationFailed(r) == r.lastError # "undefined" /\ r.retries > 0

\* After the loop: throw new Error(`Navigation failed after ${retries}
\* attempts...`), which the outer catch answers with browser.close() and a
\* rethrow; or on to the extraction or the captures.
AfterNavigation(r) ==
  IF NavigationFailed(r)
  THEN [r EXCEPT !.pc = "thrown", !.closed = TRUE,
                 !.result = PageThrow("Navigation failed after N attempts")]
  ELSE [r EXCEPT !.pc = "working", !.worked = TRUE]

\* The loop test of for (let attempt = 1; attempt <= retries; attempt++): the
\* next page.goto is awaited, or the loop is over.
NavigationLoop(r) ==
  IF r.attempt <= r.retries THEN [r EXCEPT !.pc = "navigating"] ELSE AfterNavigation(r)

\* What the awaits before the try block end in: the browser is launched and
\* the page is set up; puppeteer.launch rejects; or browser.newPage,
\* page.setUserAgent or page.setExtraHTTPHeaders rejects after the launch.
SetUpOutcomes == { "ready", "launch fails", "page fails" }

\* await puppeteer.launch(...), browser.newPage() and the page set-up, all of
\* them before try: a rejection leaves the routine at once, and no catch
\* closes the browser.
LaunchBrowser(r, setUp) ==
  CASE setUp = "launch fails" ->
         [r EXCEPT !.pc = "thrown",
                   !.result = PageThrow("Failed to launch the browser process")]
    [] setUp = "page fails" ->
         [r EXCEPT !.launched = TRUE, !.pc = "thrown",
                   !.result = PageThrow("Protocol error (Target.createTarget): Target closed")]
    [] OTHER -> NavigationLoop([r EXCEPT !.launched = TRUE])

\* page.goto settles: on success the loop is left by break; on failure
\* lastError is set and, if a further attempt follows, 3 seconds are waited.
GotoSettles(loaded) ==
  /\ routine.op \in {"extractPageData", "takeResponsiveScreenshots"}
  /\ routine.pc = "navigating"
  /\ routine' =
       IF loaded
       THEN AfterNavigation([routine EXCEPT !.trace = Append(@, "ok")])
       ELSE LET e == [routine EXCEPT !.trace = Append(@, "failed"),
                                      !.lastError = "net::ERR_CONNECTION_REFUSED"]
            IN  IF e.attempt < e.retries
                THEN [e EXCEPT !.pc = "waiting", !.trace = Append(e.trace, "wait")]
                ELSE NavigationLoop([e EXCEPT !.attempt = @ + 1])
  /\ UNCHANGED <<messages, maxSteps, options, files, probe, systemPrompt, calls, alive, sysInserts>>

\* The 3 second timer fires: attempt++ and the loop test.
NavigationTimer ==
  /\ routine.op \in {"extractPageData", "takeResponsiveScreenshots"}
  /\ routine.pc = "waiting"
  /\ routine' = NavigationLoop([routine EXCEPT !.attempt = @ + 1])
  /\ UNCHANGED <<messages, maxSteps, options, files, probe, systemPrompt, calls, alive, sysInserts>>

\* Variant: an entry of the index is used whatever useCache is.
UsesCachedEntryAlways(opts, websites, websiteKey) == websiteKey \in DOMAIN websites

\* if (useCache && existingWebsites[websiteKey])
UsesCachedEntry(opts, websites, websiteKey) ==
  opts.useCache /\ websiteKey \in DOMAIN websites

\* extractPageData up to its first await: the cache index is read; with
\* useCache and an entry whose file exists and parses the stored data is
\* returned with cached: true; otherwise the browser is launched.
extractPageData(url, opts, setUp) ==
  /\ routine.op = "none"
  /\ LET r == StartedPageRoutine("extractPageData", url, opts)
         existingWebsites == files.extractionIndex
         used == UsesCachedEntry(opts, existingWebsites, r.websiteKey)
         fileRead == used /\ existingWebsites[r.websiteKey] \in DOMAIN files.extractionFiles
         parsed == fileRead /\ files.extractionFiles[existingWebsites[r.websiteKey]] = "valid"
     IN  routine' =
           IF parsed
           THEN [r EXCEPT !.pc = "returned", !.cacheFileRead = TRUE,
                          !.result =
                             [PageReturn(TRUE, <<>>) EXCEPT
                                !.url = files.storedFor[existingWebsites[r.websiteKey]]]]
           ELSE LaunchBrowser([r EXCEPT !.cacheFileRead = fileRead], setUp)
  /\ files' = [files EXCEPT !.now = @ + 1]
  /\ UNCHANGED <<messages, maxSteps, options, probe, systemPrompt, calls, alive, sysInserts>>

\* What saving the extraction comes to: the file and the index are written,
\* writing the file throws, or writing the index fails.
SaveOutcomes == { "saved", "file not written", "index not written" }

\* The value of a key is set in a mapping.
Put(mapping, key, value) ==
  [k \in DOMAIN mapping \cup {key} |-> IF k = key THEN value ELSE mapping[k]]

\* filename = `extracted-${urlObj.hostname}-${timestamp}.json`
NewExtractionFile(r) ==
  "extracted-" \o hostname(r.url) \o "-" \o ToString(r.timestamp) \o ".json"

\* The page is read out (page.content(), page.evaluate(...)), the browser is
\* closed and, if (useCache), the extraction is saved and entered in the index
\* under the website key; or reading the page out throws, and the catch closes
\* the browser and rethrows.
ExtractionSettles(extracted, save) ==
  /\ routine.op = "extractPageData"
  /\ routine.pc = "working"
  /\ IF ~extracted
     THEN /\ routine' = [routine EXCEPT !.pc = "thrown", !.closed = TRUE,
                            !.result = PageThrow("Execution context was destroyed")]
          /\ files' = files
     ELSE LET fileWritten == routine.opts.useCache /\ save # "file not written"
              indexWritten == routine.opts.useCache /\ save = "saved"
              filename == NewExtractionFile(routine)
          IN  /\ routine' = [routine EXCEPT !.pc = "returned", !.closed = TRUE,
                                !.indexWritten = indexWritten,
                                !.result = [PageReturn(FALSE, <<>>) EXCEPT
                                              !.url = routine.url]]
              /\ files' = [files EXCEPT
                    !.extractionFiles = IF fileWritten THEN Put(@, filename, "valid") ELSE @,
                    !.storedFor = IF fileWritten THEN Put(@, filename, routine.url) ELSE @,
                    !.extractionIndex =
                       IF indexWritten THEN Put(@, routine.websiteKey, filename) ELSE @]
  /\ UNCHANGED <<messages, maxSteps, options, probe, systemPrompt, calls, alive, sysInserts>>

viewports == <<"mobile", "tablet", "desktop">>

Range(seq) == { seq[i] : i \in 1..Len(seq) }

CachedFile(viewport) == "screenshot-example.com-" \o viewport \o "-1.png"

\* filename = `screenshot-${urlObj.hostname}-${viewport.name}-${timestamp}.png`
NewFile(r, viewport) ==
  "screenshot-" \o hostname(r.url) \o "-" \o viewport \o "-" \o ToString(r.timestamp)
    \o ".png"

\* Object.entries(existingData), in the order the entry was written in
Entries(entry) == SelectSeq(viewports, LAMBDA v : v \in DOMAIN entry)

\* The loop over the entry: the files are collected up to the first one that
\* does not exist.
CachedScreenshots(entry) ==
  LET all == Entries(entry)
      missing == { i \in 1..Len(all) : entry[all[i]] \notin files.screenshotFiles }
      n == IF missing = {} THEN Len(all) ELSE Least(missing) - 1
  IN  [i \in 1..n |-> Shot(all[i], entry[all[i]], "undefined", TRUE)]

\* takeResponsiveScreenshots up to its first await: the index is read; the
\* screenshots of the entry under the website key are returned if all its
\* files exist and there are as many as viewports; otherwise the browser is
\* launched.
takeResponsiveScreenshots(url, opts, setUp) ==
  /\ routine.op = "none"
  /\ LET r == StartedPageRoutine("takeResponsiveScreenshots", url, opts)
         existingWebsites == files.screenshotsIndex
     IN  routine' =
           IF r.websiteKey \in DOMAIN existingWebsites
           THEN LET existingData == existingWebsites[r.websiteKey]
                    screenshots == CachedScreenshots(existingData)
                    allFilesExist == Len(screenshots) = Len(Entries(existingData))
                IN  IF allFilesExist /\ Len(screenshots) = Len(viewports)
                    THEN [r EXCEPT !.pc = "returned",
                                   !.result = PageReturn(TRUE, screenshots)]
                    ELSE LaunchBrowser(r, setUp)
           ELSE LaunchBrowser(r, setUp)
  /\ files' = [files EXCEPT !.now = @ + 1]
  /\ UNCHANGED <<messages, maxSteps, options, probe, systemPrompt, calls, alive, sysInserts>>

\* Variant: the index is updated when any screenshot was taken.
UpdatesIndexOnAny(successfulScreenshots) == Len(successfulScreenshots) > 0

\* if (successfulScreenshots.length > 0) ... if (successfulScreenshots.length
\* === viewports.length)
UpdatesIndex(successfulScreenshots) ==
  Len(successfulScreenshots) > 0 /\ Len(successfulScreenshots) = Len(viewports)

\* The loop over the viewports, each capture succeeding or failing, then
\* browser.close() and the update of the index, whose write may fail.
CaptureSettles(failed, indexWriteOk) ==
  /\ routine.op = "takeResponsiveScreenshots"
  /\ routine.pc = "working"
  /\ LET screenshots ==
           [i \in 1..Len(viewports) |->
              IF viewports[i] \in failed THEN NotCaptured(viewports[i])
              ELSE Shot(viewports[i], NewFile(routine, viewports[i]), "undefined", TRUE)]
         successfulScreenshots ==
           SelectSeq(screenshots, LAMBDA shot : shot.error = "undefined" /\ shot.file # "null")
         taken == { shot.file : shot \in Range(successfulScreenshots) }
         websiteData ==
           [v \in { shot.viewport : shot \in Range(successfulScreenshots) } |->
              NewFile(routine, v)]
         written == UpdatesIndex(successfulScreenshots) /\ indexWriteOk
     IN  /\ routine' = [routine EXCEPT !.pc = "returned", !.closed = TRUE,
                           !.indexWritten = written,
                           !.result = PageReturn(FALSE, screenshots)]
         /\ files' = [files EXCEPT
               !.screenshotFiles = @ \cup taken,
               !.storedFor = [file \in DOMAIN @ \cup taken |->
                                IF file \in taken THEN routine.url ELSE @[file]],
               !.screenshotsIndex =
                  IF written THEN Put(@, routine.websiteKey, websiteData) ELSE @]
  /\ UNCHANGED <<messages, maxSteps, options, probe, systemPrompt, calls, alive, sysInserts>>

NextPageRoutines ==
  \/ \E url \in Urls, opts \in PageOptions, setUp \in SetUpOutcomes :
       extractPageData(url, opts, setUp)
  \/ \E url \in Urls, opts \in PageOptions, setUp \in SetUpOutcomes :
       takeResponsiveScreenshots(url, opts, setUp)
  \/ \E loaded \in BOOLEAN : GotoSettles(loaded)
  \/ NavigationTimer
  \/ \E extracted \in BOOLEAN, save \in SaveOutcomes : ExtractionSettles(extracted, save)
  \/ \E failed \in SUBSET Range(viewports), indexWriteOk \in BOOLEAN :
       CaptureSettles(failed, indexWriteOk)

\* The caches before the call, as earlier calls for https://example.com/ left
\* them: no entry; an entry whose file is valid, is corrupt, or is missing; for
\* the screenshots an entry of all three viewports with all files, one with a
\* file missing, and an entry of two viewports.
CachedExtractions ==
  LET file == "extracted-example.com-1.json"
      index == [key \in {"example.com"} |-> file]
  IN  { [Files(PromptFile) EXCEPT
           !.extractionIndex = index,
           !.extractionFiles = [f \in {file} |-> state],
           !.storedFor = [f \in {file} |-> "https://example.com/"]] :
          state \in {"valid", "corrupt"} }
        \cup { [Files(PromptFile) EXCEPT !.extractionIndex = index] }

CachedScreenshotSets ==
  { [Files(PromptFile) EXCEPT
       !.screenshotsIndex = [key \in {"example.com"} |-> [v \in vs |-> CachedFile(v)]],
       !.screenshotFiles = { CachedFile(v) : v \in onDisk },
       !.storedFor = [f \in { CachedFile(v) : v \in onDisk } |-> "https://example.com/"]] :
      vs \in { Range(viewports), {"mobile", "desktop"} },
      onDisk \in { Range(viewports), {"mobile", "desktop"} } }

InitPageRoutines ==
  /\ messages = <<>>
  /\ options = [hasMaxSteps |-> TRUE, maxSteps |-> ShellMaxSteps]
  /\ maxSteps = Constructor(options)
  /\ probe = NoProbe
  /\ files \in {Files(PromptFile)} \cup CachedExtractions \cup CachedScreenshotSets
  /\ routine = NoRoutine
  /\ systemPrompt = "null"
  /\ calls = [c \in CallIds |-> NoCall]
  /\ alive = TRUE
  /\ sysInserts = 0

SpecPageRoutines == InitPageRoutines /\ [][NextPageRoutines]_vars

PageRoutine(r) == r.op \in {"extractPageData", "takeResponsiveScreenshots"}

\* C27: in extractPageData and takeResponsiveScreenshots navigation is
\* attempted at most retries times and stops at the first attempt that
\* succeeds; the call fails with 'Navigation failed after N attempts' only if
\* every attempt failed, and once an attempt has succeeded the call goes on to
\* extract or to capture.
C27_NavigationRetries ==
  PageRoutine(routine) =>
    LET t == routine.trace
    IN  /\ AttemptsIn(t, Len(t)) <= routine.retries
        /\ \A i \in 1..Len(t) : t[i] = "ok" => i = Len(t)
        /\ routine.result.error = "Navigation failed after N attempts"
             => \A i \in 1..Len(t) : t[i] # "ok"
        /\ (\E i \in 1..Len(t) : t[i] = "ok") => routine.worked

\* The step is takeResponsiveScreenshots ending after its captures.
CapturesDone ==
  /\ routine.op = "takeResponsiveScreenshots" /\ routine.pc = "working"
  /\ routine'.pc = "returned"

AllCaptured(shots) ==
  /\ Len(shots) = Len(viewports)
  /\ \A i \in 1..Len(shots) : shots[i].viewport = viewports[i] /\ shots[i].file # "null"

\* C28: takeResponsiveScreenshots writes an entry for the website into the
\* screenshots index only when the captures of all three viewports of the call
\* succeeded; the entry it writes maps exactly mobile, tablet and desktop to the
\* files of the call, and a call of which a capture failed leaves the index as
\* it was.
C28_IndexOnlyWhenAllCaptured ==
  [][routine'.op = "takeResponsiveScreenshots" =>
       /\ files'.screenshotsIndex # files.screenshotsIndex
            => /\ CapturesDone
               /\ AllCaptured(routine'.result.shots)
               /\ DOMAIN files'.screenshotsIndex =
                    DOMAIN files.screenshotsIndex \cup {routine.websiteKey}
               /\ \A key \in DOMAIN files.screenshotsIndex \ {routine.websiteKey} :
                    files'.screenshotsIndex[key] = files.screenshotsIndex[key]
               /\ DOMAIN files'.screenshotsIndex[routine.websiteKey] = Range(viewports)
               /\ \A i \in 1..Len(viewports) :
                    files'.screenshotsIndex[routine.websiteKey][viewports[i]]
                      = routine'.result.shots[i].file
       /\ (CapturesDone /\ ~AllCaptured(routine'.result.shots))
            => /\ files'.screenshotsIndex = files.screenshotsIndex
               /\ ~routine'.indexWritten
     ]_vars

C28_Witness ==
  /\ routine.op = "takeResponsiveScreenshots"
  /\ routine.url = "https://example.com/"
  /\ routine.pc = "returned" /\ routine.indexWritten
  /\ AllCaptured(routine.result.shots)
  /\ DOMAIN files.screenshotsIndex["example.com"] = Range(viewports)
  /\ files.screenshotsIndex["example.com"]["tablet"] = NewFile(routine, "tablet")

\* The step is the call of extractPageData.
ExtractCalled == routine.op = "none" /\ routine'.op = "extractPageData"

\* C29: extractPageData called with useCache true and an entry of the index
\* whose file exists and parses returns the stored data with cached: true and
\* launches no browser; called with useCache false it never reads a cached
\* extraction and never writes the cache index.
C29_CacheOnlyWithUseCache ==
  [][routine'.op = "extractPageData" =>
       /\ ( /\ ExtractCalled
            /\ routine'.opts.useCache
            /\ routine'.websiteKey \in DOMAIN files.extractionIndex
            /\ files.extractionIndex[routine'.websiteKey] \in DOMAIN files.extractionFiles
            /\ files.extractionFiles[files.extractionIndex[routine'.websiteKey]] = "valid" )
            => /\ routine'.pc = "returned"
               /\ routine'.result.kind = "return" /\ routine'.result.cached
               /\ ~routine'.launched
       /\ ~routine'.opts.useCache
            => /\ ~routine'.cacheFileRead
               /\ ~routine'.result.cached
               /\ ~routine'.indexWritten
               /\ files'.extractionIndex = files.extractionIndex
               /\ files'.extractionFiles = files.extractionFiles
     ]_vars

C29_Witness ==
  /\ routine.op = "extractPageData"
  /\ routine.url = "https://www.example.com/pricing"
  /\ ~routine.opts.useCache
  /\ files.extractionIndex = [key \in {"example.com"} |-> "extracted-example.com-1.json"]
  /\ files.extractionFiles = [file \in {"extracted-example.com-1.json"} |-> "valid"]
  /\ routine.pc = "returned" /\ routine.launched /\ ~routine.result.cached

\* The text is prose, one bare JSON object, prose, and holds no fenced block.
ProseAroundObject ==
  /\ probe.op = "extractJsonObject"
  /\ ~probe.fenced
  /\ JSONparse(probe.body).type = "object"
  /\ probe.pre # <<>> /\ probe.post # <<>>
  /\ FenceOpeners(probe.text) = {}

\* The chunks of the text from the one with the first "{" to the one with the
\* last "}"; the object is one of them.
FirstToLastBrace(text) ==
  SubSeq(text, Least({ i \in 1..Len(text) : HasOpenBrace(text[i]) }),
               Greatest({ i \in 1..Len(text) : HasCloseBrace(text[i]) }))

NoBraceIn(prose) ==
  \A i \in 1..Len(prose) : ~HasOpenBrace(prose[i]) /\ ~HasCloseBrace(prose[i])

\* C30: for a text of prose, one bare JSON object and prose, without a fenced
\* block, extractJsonObject parses exactly the part from the first "{" to the
\* last "}": it returns the object when that part is the object, as it is when
\* the prose holds no brace, and none when that part is not valid JSON.
C30_BraceFallback ==
  ProseAroundObject =>
    LET part == FirstToLastBrace(probe.text)
    IN  /\ probe.json =
             IF part = <<probe.body>> THEN JSONparse(probe.body) ELSE JsonNull
        /\ (NoBraceIn(probe.pre) /\ NoBraceIn(probe.post))
             => probe.json = JSONparse(probe.body)

C30_Witness ==
  /\ ProseAroundObject
  /\ probe.pre = <<"Here is the plan.">>
  /\ probe.post = <<"Use {name", "Here is the plan.">>
  /\ probe.json.type = "object" /\ probe.json.tool = "page.extract"
  /\ probe.json.id = "s1"

\* The commands whose process keeps running until it is stopped: the
\* development server started by npm start.  mkdir desktop ends at once.
KeepsRunning(command) == command \in {"npm start", "npm start && rm -rf /"}

\* The call got past the safety check and the working directory check.
Admitted(r) ==
  /\ r.op = "runShellCommand"
  /\ ~MatchesDangerous(r.command)
  /\ r.opts.cwd \in ExistingDirectories

\* C31: with the background option set or a command detected as long-running,
\* runShellCommand spawns the command once and executes no attempt; the call
\* resolves with success and background true when the child has spawned and
\* rejects when spawning errors; and without the background option only a
\* command that really is long-running is spawned.
C31_BackgroundPath ==
  Admitted(routine) =>
    /\ (routine.opts.background \/ isLongRunningCommand(routine.command)) =>
         /\ routine.spawns = 1
         /\ routine.execs = 0
         /\ routine.trace = <<>>
         /\ routine.pc \in {"spawning", "returned", "thrown"}
         /\ routine.pc = "returned" =>
              routine.result.success /\ routine.result.background
         /\ routine.pc = "thrown" =>
              ~routine.result.success /\ routine.result.background
    /\ (routine.spawns > 0 /\ ~routine.opts.background) => KeepsRunning(routine.command)

\* C32: when the foreground execution fails, the attempts field of the failure
\* result, which is also the N of 'Command failed after N attempts', is the
\* number of execution attempts the call made.
C32_AttemptsReported ==
  (Foreground(routine) /\ routine.pc = "returned" /\ ~routine.result.success)
    => routine.result.attempts = routine.execs

\* C33: replace with backup on, dryRun off and at least one match copies the
\* file to the backup before it writes the new content: whenever the file was
\* written the backup exists and holds the content the file had before, and a
\* call that returns has made the backup and the write; with no match no
\* backup is made, nothing is written and the file holds what it held.
C33_BackupBeforeWrite ==
  (routine.op = "replace" /\ routine.opts.backup /\ ~routine.opts.dryRun)
    => LET matches == MatchPlaces(routine.originalContent, routine.searchValue,
                                  routine.opts)
       IN  /\ files.writes > 0 => files.backups = <<routine.originalContent>>
           /\ (matches # {} /\ routine.pc = "returned") =>
                /\ files.writes = 1
                /\ files.backups = <<routine.originalContent>>
                /\ files.content =
                     ReplaceIn(routine.originalContent, routine.searchValue,
                               routine.replaceValue, routine.opts)
           /\ matches = {} =>
                /\ files.backups = <<>>
                /\ files.writes = 0
                /\ files.content = routine.originalContent

C33_Witness ==
  /\ routine.op = "replace" /\ routine.pc = "returned"
  /\ routine.opts.backup /\ ~routine.opts.dryRun
  /\ routine.originalContent = <<"foo", "bar", "foo">>
  /\ files.backups = <<<<"foo", "bar", "foo">>>>
  /\ files.content = <<"baz", "bar", "baz">>
  /\ files.writes = 1

\* takeResponsiveScreenshots went past the cache and has ended.
FreshCaptureEnded(r) ==
  /\ r.op = "takeResponsiveScreenshots"
  /\ r.launched
  /\ r.pc \in {"returned", "thrown"}

\* The entries a fresh capture returns: one per viewport in the order mobile,
\* tablet, desktop, each with the file it wrote or with file null and an error.
OnePerViewport(shots) ==
  /\ Len(shots) = Len(viewports)
  /\ \A i \in 1..Len(shots) :
       /\ shots[i].viewport = viewports[i]
       /\ \/ shots[i].file = "null" /\ shots[i].error # "undefined"
          \/ /\ shots[i].file = NewFile(routine, viewports[i])
             /\ shots[i].error = "undefined"
             /\ shots[i].file \in files.screenshotFiles

\* C34: a fresh capture that returns returns three entries in the order
\* mobile, tablet, desktop; a viewport whose capture failed has an entry with
\* file null and an error, and the other viewports are captured all the same;
\* and whenever a fresh capture has returned or thrown, the browser it
\* launched is closed.
C34_CaptureResults ==
  FreshCaptureEnded(routine) =>
    /\ routine.pc = "returned" => OnePerViewport(routine.result.shots)
    /\ routine.closed

\* C35: the step counter belongs to the run call: every call starts at step 0,
\* has made step + 1 model invocations while it is inside a step, and returns
\* in exhaustion only after maxSteps model invocations of its own, whatever
\* the earlier calls on the agent used and however they ended.
C35_FreshBudget ==
  \A c \in CallIds :
    /\ calls[c].pc = "loading" => calls[c].step = 0 /\ calls[c].modelCalls = 0
    /\ calls[c].pc \in {"awaitModel", "awaitTool", "final"}
         => calls[c].modelCalls = calls[c].step + 1
    /\ calls[c].pc = "exhausted"
         => calls[c].step = maxSteps /\ calls[c].modelCalls = maxSteps

C35_Witness ==
  /\ maxSteps = 2
  /\ calls[1].pc = "exhausted" /\ calls[1].modelCalls = 2
  /\ calls[2].pc = "exhausted" /\ calls[2].modelCalls = 2

(***************************************************************************)
(* The session as the shell drives it: the line handler calls run and      *)
(* nothing in the shell calls reset.                                       *)
(***************************************************************************)
NextSession ==
  \/ \E input \in Lines : Line(input)
  \/ \E c \in CallIds : PromptLoaded(c)
  \/ \E c \in CallIds : PromptReadFails(c)
  \/ \E c \in CallIds, content \in Replies : ModelReply(c, content)
  \/ \E c \in CallIds : ModelFails(c)
  \/ \E c \in CallIds, outcome \in Outcomes : ToolSettles(c, outcome)
  \/ GetHistory

SpecSession == Init /\ [][NextSession]_vars

\* The messages the run calls 1..n have pushed.
RECURSIVE AppendedUpTo(_)
AppendedUpTo(n) == IF n = 0 THEN 0 ELSE calls[n].appended + AppendedUpTo(n - 1)

\* The run calls that got past loadSystemPrompt with the user input given.
TurnsOf(input) ==
  { d \in CallIds : /\ calls[d].input = input
                    /\ calls[d].pc \notin {"none", "loading"}
                    /\ ~(calls[d].pc = "rejected" /\ calls[d].error = "ENOENT") }

\* The places of the history that hold the message.
PlacesOf(message) == { i \in 1..Len(messages) : messages[i] = message }

RejectedByModel(c) ==
  calls[c].pc = "rejected" /\ calls[c].error = "model invocation failed"

\* C36: a run call that rejects because the model invocation failed takes
\* nothing back: every message the run calls pushed is still in the history,
\* the rejected call's among them (its user input and a reply for each step it
\* completed), so the history holds the user input once for every turn issued
\* with it, twice when the turn was issued again.
C36_NothingRolledBack ==
  /\ Len(messages) = AppendedUpTo(MaxCalls)
  /\ \A c \in CallIds :
       RejectedByModel(c) =>
         /\ calls[c].appended >= 1 + Len(calls[c].replies)
         /\ Cardinality(PlacesOf(HumanMessage(calls[c].input)))
              = Cardinality(TurnsOf(calls[c].input))

C36_Witness ==
  /\ RejectedByModel(1)
  /\ Len(calls[1].replies) = 1
  /\ calls[2].input = calls[1].input
  /\ calls[2].pc = "awaitModel"
  /\ Cardinality(PlacesOf(HumanMessage(calls[1].input))) = 2

\* C37: reset leaves the history empty; the run call that finds it empty puts
\* the system message first and its user input second; and after every step of
\* run and reset a history that is not empty starts with a system message
\* followed by a user input message.
C37_SystemThenUser ==
  [][/\ (calls' = calls /\ messages' # messages) => Len(messages') = 0
     /\ \A c \in CallIds :
          ( /\ calls[c].pc = "loading"
            /\ calls'[c].pc \notin {"loading", "rejected"}
            /\ Len(messages) = 0 )
            => messages' = <<SystemMessage(systemPrompt'), HumanMessage(calls[c].input)>>
     /\ Len(messages') > 0 =>
          /\ Len(messages') >= 2
          /\ messages'[1].role = "system"
          /\ messages'[2].role = "user" /\ messages'[2].kind = "input"
    ]_vars

(***************************************************************************)
(* The page tools called one after another, as page.extract and            *)
(* shots.capture of the tool registry call them, starting from empty       *)
(* caches: what a call finds in a cache an earlier call has stored.        *)
(***************************************************************************)
MaxClock == 4        \* Date.now() values explored: calls are made while below it

\* The awaiting caller takes the result or the error, and the next call can
\* be made.
PageRoutineSettled ==
  /\ PageRoutine(routine)
  /\ routine.pc \in {"returned", "thrown"}
  /\ files.now < MaxClock
  /\ routine' = NoRoutine
  /\ UNCHANGED <<messages, maxSteps, options, files, probe, systemPrompt, calls, alive, sysInserts>>

NextWebsiteCache ==
  \/ NextPageRoutines
  \/ PageRoutineSettled

SpecWebsiteCache == InitFunctions /\ [][NextWebsiteCache]_vars

\* The two urls name the same host, a leading www. apart.
SameWebsite(url, other) == RemoveWww(hostname(url)) = RemoveWww(hostname(other))

\* The step is the call of the routine.
PageRoutineCalled(op) == routine.op = "none" /\ routine'.op = op

\* The valid extraction files the index names that were stored for the url's
\* website.
StoredExtractions(url) ==
  { file \in { files.extractionIndex[key] : key \in DOMAIN files.extractionIndex } :
      /\ file \in DOMAIN files.extractionFiles
      /\ files.extractionFiles[file] = "valid"
      /\ SameWebsite(files.storedFor[file], url) }

\* The complete screenshot sets the index names, all files on disk, that were
\* stored for the url's website.
StoredScreenshots(url) ==
  { entry \in { files.screenshotsIndex[key] : key \in DOMAIN files.screenshotsIndex } :
      /\ DOMAIN entry = Range(viewports)
      /\ \A v \in Range(viewports) :
           entry[v] \in files.screenshotFiles /\ SameWebsite(files.storedFor[entry[v]], url) }

\* C38: the caches are keyed by the host name without a leading www.: what a
\* call returns from a cache was stored for a url of the same website, and a
\* call (extractPageData with useCache) for a url whose website has a stored
\* extraction, or a complete stored screenshot set, returns that one, also
\* when it was stored for a url with another path or the www. name.
C38_CacheKeyedByWebsite ==
  [][/\ PageRoutineCalled("extractPageData") =>
          /\ routine'.result.cached =>
               /\ SameWebsite(routine'.result.url, routine'.url)
               /\ RemoveWww(hostname(routine'.url)) \in DOMAIN files.extractionIndex
               /\ routine'.result.url =
                    files.storedFor[files.extractionIndex[RemoveWww(hostname(routine'.url))]]
          /\ \A file \in StoredExtractions(routine'.url) :
               routine'.opts.useCache =>
                 /\ routine'.pc = "returned" /\ routine'.result.cached
                 /\ routine'.result.url = files.storedFor[file]
     /\ PageRoutineCalled("takeResponsiveScreenshots") =>
          /\ routine'.result.cached =>
               \A i \in 1..Len(routine'.result.shots) :
                 SameWebsite(files.storedFor[routine'.result.shots[i].file], routine'.url)
          /\ \A entry \in StoredScreenshots(routine'.url) :
               /\ routine'.pc = "returned" /\ routine'.result.cached
               /\ \A i \in 1..Len(viewports) :
                    routine'.result.shots[i].file = entry[viewports[i]]
    ]_vars

C38_Witness ==
  /\ routine.op = "extractPageData"
  /\ routine.url = "https://www.example.com/pricing"
  /\ routine.pc = "returned" /\ routine.result.cached
  /\ routine.result.url = "https://example.com/"
  /\ files.now = 4

(***************************************************************************)
(* The session of the shell under the proviso that what a run call awaits  *)
(* settles: the read of the prompt file, every model invocation and every  *)
(* tool invocation complete, by a result or by a failure.                  *)
(***************************************************************************)
AwaitsSettle ==
  \A c \in CallIds :
    /\ WF_vars(PromptLoaded(c) \/ PromptReadFails(c))
    /\ WF_vars((\E content \in Replies : ModelReply(c, content)) \/ ModelFails(c))
    /\ WF_vars(\E outcome \in Outcomes : ToolSettles(c, outcome))

SpecSessionFair == Init /\ [][NextSession]_vars /\ AwaitsSettle

\* The run call has returned a result or has rejected.
Settled(c) == calls[c].pc \in {"final", "exhausted", "rejected"}

\* C39: every run call that was made eventually returns a result or rejects,
\* when everything it awaits settles, unless the shell has ended the process
\* on exit: no sequence of tool calls, unknown tools, tool failures and
\* unparseable replies keeps the loop going forever.
C39_RunTerminates ==
  \A c \in CallIds : (calls[c].pc = "loading") ~> (Settled(c) \/ ~alive)

C39_Witness ==
  \E c \in CallIds :
    /\ calls[c].pc = "exhausted" /\ maxSteps = 2
    /\ calls[c].toolCalls = 1
    /\ extractJsonObject(calls[c].replies[2]) = JsonNull
    /\ messages[Len(messages) - 1].kind = "failed"

====
